---------------------------- MODULE Spec2Model ----------------------------
(***************************************************************************)
(* A model of the movie enrichment orchestrator (main_orchestrator.py),    *)
(* its relationship normalizer (enrichers/character_enricher.py) and its   *)
(* storage helper (utils/helpers.py).                                      *)
(*                                                                         *)
(* Text is modelled as a sequence of one-character strings, so that        *)
(* str.strip() and str.lower() are computed and not assumed.  A value of   *)
(* an Optional type is a sequence of length at most one: <<>> is None.     *)
(***************************************************************************)
EXTENDS Integers, Sequences, FiniteSets, TLC

(***************************************************************************)
(* Text helpers: Python's str.lower() and str.strip() on the alphabet the  *)
(* model uses.                                                             *)
(***************************************************************************)
UpperLetters ==
    <<"A", "B", "C", "D", "E", "F", "G", "H", "I", "J", "K", "L", "M", "N",
      "O", "P", "Q", "R", "S", "T", "U", "V", "W", "X", "Y", "Z">>

LowerLetters ==
    <<"a", "b", "c", "d", "e", "f", "g", "h", "i", "j", "k", "l", "m", "n",
      "o", "p", "q", "r", "s", "t", "u", "v", "w", "x", "y", "z">>

LowerChar(c) ==
    IF \E i \in 1..26 : UpperLetters[i] = c
      THEN LowerLetters[CHOOSE i \in 1..26 : UpperLetters[i] = c]
      ELSE c

Lower(s) == [i \in 1..Len(s) |-> LowerChar(s[i])]

\* the whitespace of the texts: space and newline
Whitespace == {" ", "\n"}

RECURSIVE LStrip(_)
LStrip(s) == IF s # <<>> /\ Head(s) \in Whitespace THEN LStrip(Tail(s)) ELSE s

RECURSIVE RStrip(_)
RStrip(s) ==
    IF s # <<>> /\ s[Len(s)] \in Whitespace
      THEN RStrip(SubSeq(s, 1, Len(s) - 1)) ELSE s

Strip(s) == RStrip(LStrip(s))

\* dict[k] = v on a dict modelled as a function
MapPut(m, k, v) == [x \in (DOMAIN m) \cup {k} |-> IF x = k THEN v ELSE m[x]]

\* All sequences over S of length at most n
SeqsUpTo(S, n) == UNION {[1..k -> S] : k \in 0..n}

(***************************************************************************)
(* deduplicate_and_normalize_relationships                                 *)
(* A roster entry is [name, aliases]; an edge is [source, target,          *)
(* directed, description].  The other fields of CharacterListItem and      *)
(* Relationship are carried through unchanged by the code and are not     *)
(* read by it; description stands for them and tells the edges apart.      *)
(***************************************************************************)

\* lines 198-202: every non-blank alias maps to the canonical name
RECURSIVE AddAliases(_, _, _)
AddAliases(m, aliases, canonical_name) ==
    IF aliases = <<>> THEN m
    ELSE LET alias_str == Strip(Head(aliases))
         IN  AddAliases(IF alias_str # <<>>
                          THEN MapPut(m, Lower(alias_str), canonical_name)
                          ELSE m,
                        Tail(aliases), canonical_name)

\* lines 193-202: the lookup table, built in roster order (a later entry
\* overwrites an earlier one with the same lowercased key)
RECURSIVE BuildNameMap(_, _)
BuildNameMap(m, roster) ==
    IF roster = <<>> THEN m
    ELSE LET canonical_name == Strip(Head(roster).name)
         IN  BuildNameMap(IF canonical_name # <<>>
                            THEN AddAliases(MapPut(m, Lower(canonical_name), canonical_name),
                                            Head(roster).aliases, canonical_name)
                            ELSE m,
                          Tail(roster))

\* A lookup that lets an unknown name through under its own spelling
NameMapGetLenient(name_map, s) ==
    IF Lower(s) \in DOMAIN name_map THEN <<name_map[Lower(s)]>> ELSE <<s>>

\* lines 219-220, name_map.get(x.lower()): <<>> when the key is missing
NameMapGet(name_map, s) ==
    IF Lower(s) \in DOMAIN name_map THEN <<name_map[Lower(s)]>> ELSE <<>>

\* line 229: tuple(sorted((a.lower(), b.lower()))), an unordered pair
PairKey(source_norm, target_norm) == {Lower(source_norm), Lower(target_norm)}

\* A test that admits every edge
PairIsNewAlways(pair_key, seen_pairs) == TRUE

\* line 231: the test that admits an edge
PairIsNew(pair_key, seen_pairs) == pair_key \notin seen_pairs

\* An iteration without the test for a self-relationship
DedupStepKeepSelf(name_map, st, rel_model) ==
    LET source_norm == NameMapGet(name_map, Strip(rel_model.source))
        target_norm == NameMapGet(name_map, Strip(rel_model.target))
    IN  IF source_norm = <<>> \/ target_norm = <<>> THEN st
        ELSE [seen_pairs |-> st.seen_pairs,
              unique_relationships |->
                 Append(st.unique_relationships,
                        [rel_model EXCEPT !.source = source_norm[1],
                                          !.target = target_norm[1]])]

\* lines 211-240: one iteration of the loop over the raw edges;
\* st = [seen_pairs, unique_relationships]
DedupStep(name_map, st, rel_model) ==
    LET original_source_llm == Strip(rel_model.source)
        original_target_llm == Strip(rel_model.target)
        source_norm == NameMapGet(name_map, original_source_llm)
        target_norm == NameMapGet(name_map, original_target_llm)
    IN  IF original_source_llm = <<>> \/ original_target_llm = <<>> THEN st
        ELSE IF source_norm = <<>> \/ target_norm = <<>> THEN st
        ELSE IF source_norm[1] = target_norm[1] THEN st
        ELSE LET pair_key == PairKey(source_norm[1], target_norm[1])
             IN  IF PairIsNew(pair_key, st.seen_pairs)
                   THEN [seen_pairs |-> st.seen_pairs \cup {pair_key},
                         unique_relationships |->
                            Append(st.unique_relationships,
                                   [rel_model EXCEPT !.source = source_norm[1],
                                                     !.target = target_norm[1]])]
                   ELSE st

RECURSIVE DedupLoop(_, _, _)
DedupLoop(name_map, st, rels) ==
    IF rels = <<>> THEN st
    ELSE DedupLoop(name_map, DedupStep(name_map, st, Head(rels)), Tail(rels))

\* A normalizer without the early returns of lines 188-191 and 204-206
DedupWithoutFallback(llm_enriched_character_list, relationships_data_from_llm) ==
    DedupLoop(BuildNameMap(<<>>, llm_enriched_character_list),
              [seen_pairs |-> {}, unique_relationships |-> <<>>],
              relationships_data_from_llm).unique_relationships

\* lines 183-244, the whole function
deduplicate_and_normalize_relationships(llm_enriched_character_list, relationships_data_from_llm) ==
    IF llm_enriched_character_list = <<>> THEN relationships_data_from_llm
    ELSE IF relationships_data_from_llm = <<>> THEN <<>>
    ELSE LET name_map == BuildNameMap(<<>>, llm_enriched_character_list)
         IN  IF DOMAIN name_map = {} THEN relationships_data_from_llm
             ELSE DedupLoop(name_map,
                            [seen_pairs |-> {}, unique_relationships |-> <<>>],
                            relationships_data_from_llm).unique_relationships


(***************************************************************************)
(* The record schema (models/movie_models.py) and the orchestrator's map   *)
(* from field keys to enricher groups.                                     *)
(***************************************************************************)
TextFields ==
    {"character_profile", "critical_reception", "visual_style",
     "most_talked_about_related_topic"}

RelatedKeys ==
    {"sequel", "prequel", "spin_off_of", "spin_off", "remake_of", "remake"}

AnalyticalKeys ==
    {"character_profile_big5", "character_profile_myersbriggs", "genre_mix",
     "matching_tags", "recommendations"}

ReviewKey == "tmdb_user_review_summary"

PlotKey == "plot_with_character_constraints_and_relations"

\* main_orchestrator.py lines 231-239
key_to_enricher_group_map ==
    [k \in TextFields \cup {"complex_search_queries"} \cup RelatedKeys
           \cup {"character_list", "relationships"} \cup AnalyticalKeys
           \cup {"imdb_id", ReviewKey, PlotKey} |->
        CASE k \in TextFields \cup {"complex_search_queries"} \cup RelatedKeys
                -> "initial_data"
          [] k \in {"character_list", "relationships"}
                -> "characters_and_relations"
          [] k \in AnalyticalKeys -> "analytical_data"
          [] k = "imdb_id" -> "fetch_imdb_ids"
          [] k = ReviewKey -> "tmdb_review_summary"
          [] k = PlotKey -> "constrained_plot_with_relations"]

\* [k for k, v in key_to_enricher_group_map.items() if v in groups]
GroupKeys(groups) ==
    {k \in DOMAIN key_to_enricher_group_map :
        key_to_enricher_group_map[k] \in groups}

\* the keys of active_enrichers the orchestrator reads
Enrichers ==
    {"initial_data", "characters_and_relations", "fetch_character_images",
     "constrained_plot_with_relations", "analytical_data",
     "tmdb_review_summary", "fetch_imdb_ids"}

\* the fields of MovieEntry (lines 152-177 of the models)
MovieEntryFields ==
    {"movie_title", "movie_year", "tmdb_movie_id", "imdb_id"}
    \cup TextFields \cup {"complex_search_queries"} \cup RelatedKeys
    \cup AnalyticalKeys \cup {"character_list", "relationships"}

\* the fields of MovieEntry declared without Optional and without default
RequiredFields ==
    TextFields \cup
    {"character_profile_big5", "character_profile_myersbriggs", "genre_mix",
     "matching_tags"}

\* the fields of MovieEntry declared Optional[...] = None whose None is
\* written <<>> here (the list-valued fields always carry a list)
OptionalFields == {"tmdb_movie_id", "imdb_id"} \cup RelatedKeys

\* A value received from a provider keeps its JSON type: identifiers are
\* strings, but what a provider sends is not under the program's control.
StrVal(s) == [t |-> "str", v |-> s]
NumVal(s) == [t |-> "num", v |-> s]

\* Optional[str]: None, or a value that is a str (pydantic v2 does not
\* coerce a number into a str)
IsOptionalStr(x) == x = <<>> \/ x[1].t = "str"

\* a generated text or profile: the field it was generated for and the
\* generation (0: in the loaded file, 1: returned in this run)
Gen(field, n) == <<[field |-> field, gen |-> n]>>

\* dict.get(key): None for a key the dict does not have
Get(w, key) == IF key \in DOMAIN w THEN w[key] ELSE <<>>

\* MovieEntry.model_validate(dict) succeeds (lines 152-177 of the models):
\* a field declared without default must be there and must not be None
ValidMovieEntry(w) ==
    /\ {"movie_title", "movie_year", "complex_search_queries"} \subseteq DOMAIN w
    /\ \A f \in RequiredFields : Get(w, f) # <<>>
    /\ IsOptionalStr(Get(w, "imdb_id"))
    /\ \A f \in RelatedKeys :
          Get(w, f) # <<>> => IsOptionalStr(w[f][1].imdb_id)
    /\ \A i \in 1..Len(Get(w, "recommendations")) :
          IsOptionalStr(w["recommendations"][i].imdb_id)

\* the MovieEntry built from a dict: keys that are not fields are ignored,
\* a missing optional field takes its default
MovieEntry(w) == [f \in MovieEntryFields |-> Get(w, f)]

\* entry.model_dump(exclude_none=False)
model_dump(entry) == entry

\* entry.model_dump(exclude_none=True): the keys whose value is None are
\* left out, at the top level and inside the nested models
DropNone(r, optional) ==
    [k \in {x \in DOMAIN r : ~(x \in optional /\ r[x] = <<>>)} |-> r[k]]

model_dump_exclude_none(entry) ==
    LET top == DropNone(entry, OptionalFields)
    IN  [f \in DOMAIN top |->
            IF f \in RelatedKeys THEN <<DropNone(top[f][1], {"imdb_id"})>>
            ELSE IF f = "recommendations"
                   THEN [i \in 1..Len(top[f]) |->
                            DropNone(top[f][i], {"imdb_id"})]
            ELSE IF f = "character_list"
                   THEN [i \in 1..Len(top[f]) |->
                            DropNone(top[f][i], {"image_file"})]
            ELSE top[f]]

\* entry.movie_title.lower().strip()
NormalizedTitle(title) == Strip(Lower(title))


(***************************************************************************)
(* Enricher 1: initial descriptive data                                    *)
(* (enrichers/movie_data_enricher.py, generate_initial_movie_data).        *)
(* response is what yaml.safe_load made of the LLM's answer, <<>> when the *)
(* LLM did not answer or the answer did not parse.                         *)
(***************************************************************************)
\* LLMCall1Output.model_validate(data) succeeds
ValidLLMCall1Output(data) ==
    /\ \A f \in TextFields : data[f] # <<>>
    /\ data["complex_search_queries"].t = "list"

LLMCall1Output(data) ==
    [f \in DOMAIN data |->
        IF f = "complex_search_queries" THEN data[f].v ELSE data[f]]

generate_initial_movie_data(response, movie_title_from_tmdb, movie_year_from_tmdb) ==
    IF response = <<>> THEN <<>>
    ELSE LET data == response[1]
             llm_title == data["movie_title"]
         IN  IF llm_title = <<>> \/ Strip(llm_title[1]) = <<>> THEN <<>>
             ELSE IF Lower(Strip(llm_title[1]))
                        # Lower(Strip(movie_title_from_tmdb)) THEN <<>>
             ELSE LET given ==
                        [data EXCEPT !["movie_title"] = <<movie_title_from_tmdb>>,
                                     !["movie_year"] = <<movie_year_from_tmdb>>,
                                     !["complex_search_queries"] =
                                        IF @.t = "str"
                                          THEN [t |-> "list", v |-> <<@.v>>]
                                          ELSE @]
                  IN  IF ValidLLMCall1Output(given)
                        THEN <<LLMCall1Output(given)>> ELSE <<>>

\* a helper that lets every field be written, whatever the policy
should_update_always(is_new_movie, fields_to_update_cfg, field_name) == TRUE

\* a helper that applies the policy to new movies too
should_update_by_policy(is_new_movie, fields_to_update_cfg, field_name) ==
    fields_to_update_cfg = {} \/ field_name \in fields_to_update_cfg

\* main_orchestrator.py lines 287-290
should_update_field_local(is_new_movie, fields_to_update_cfg, field_name) ==
    IF is_new_movie THEN TRUE
    ELSE IF fields_to_update_cfg = {} THEN TRUE
    ELSE field_name \in fields_to_update_cfg

\* the test that skips an enricher of an existing record: lines 297, 327,
\* 419 and 484
NotTargeted(is_new_movie, fields_to_update_cfg, keys) ==
    /\ ~is_new_movie
    /\ fields_to_update_cfg # {}
    /\ ~(\E f \in keys : f \in fields_to_update_cfg)

\* lines 311-319: the value stored for one key of the initial data
InitialValue(key, value) ==
    IF key \in RelatedKeys
      THEN IF value # <<>> /\ Strip(value[1]) # <<>>
             THEN <<[title |-> Strip(value[1]), imdb_id |-> <<>>]>>
             ELSE <<>>
      ELSE value

\* lines 309-319: the merge of LLMCall1Output into the working dict
MergeInitial(w, out, is_new_movie, fields_to_update_cfg) ==
    [k \in DOMAIN w |->
        IF /\ k \in (DOMAIN out) \ {"movie_title", "movie_year"}
           /\ should_update_field_local(is_new_movie, fields_to_update_cfg, k)
          THEN InitialValue(k, out[k])
          ELSE w[k]]

\* what an enricher block of the pass yields: the working dict, the calls
\* made, what the enricher returned and the plot text of the nested call
NoCalls(w) == [w |-> w, calls |-> {}, ret |-> <<>>, plot |-> <<>>]

\* lines 294-321
InitialDataStage(w, cfg, is_new_movie, response) ==
    IF "initial_data" \notin cfg.active_enrichers
         \/ NotTargeted(is_new_movie, cfg.fields_to_update,
                        GroupKeys({"initial_data"}))
      THEN NoCalls(w)
      ELSE LET llm1_data_generated ==
                  generate_initial_movie_data(response, w["movie_title"],
                                              w["movie_year"])
           IN  [w |-> IF llm1_data_generated # <<>>
                        THEN MergeInitial(w, llm1_data_generated[1],
                                          is_new_movie, cfg.fields_to_update)
                        ELSE w,
                calls |-> {"initial_data"},
                ret |-> llm1_data_generated,
                plot |-> <<>>]


(***************************************************************************)
(* Enricher 2: roster and relationships, with the constrained plot nested  *)
(* in it (main_orchestrator.py lines 323-414).  env carries what the       *)
(* providers answered: cast is raw_chars_data (<<>> for None), llm2 is the *)
(* LLMCall2Output (<<>> for None), plot is the generated plot text.        *)
(***************************************************************************)
\* character_enricher.fetch_and_assign_character_images: every entry of the
\* roster gets its image reference
fetch_and_assign_character_images(character_list) ==
    [i \in 1..Len(character_list) |->
        [character_list[i] EXCEPT !.image_file = <<"img">>]]

\* A stage that asks for the constrained plot whether or not the roster
\* enricher returned
CharactersStagePlotAlways(w, cfg, is_new_movie, env) ==
    IF "characters_and_relations" \notin cfg.active_enrichers
      THEN NoCalls(w)
      ELSE [w |-> MapPut(w, PlotKey, env.plot),
            calls |-> {"tmdb_cast", "characters_and_relations",
                       "constrained_plot_with_relations"},
            ret |-> env.llm2,
            plot |-> env.plot]

CharactersStage(w, cfg, is_new_movie, env) ==
    LET su(k) == should_update_field_local(is_new_movie, cfg.fields_to_update, k)
    IN
    IF "characters_and_relations" \notin cfg.active_enrichers
         \/ NotTargeted(is_new_movie, cfg.fields_to_update,
                        GroupKeys({"characters_and_relations",
                                   "constrained_plot_with_relations"})
                        \cup {"fetch_character_images"})
      THEN NoCalls(w)
    ELSE IF w["tmdb_movie_id"] = <<>> THEN NoCalls(w)
    ELSE IF env.cast = <<>>
      THEN [NoCalls(w) EXCEPT !.calls = {"tmdb_cast"}]
    ELSE IF env.llm2 = <<>>
      THEN [NoCalls(w) EXCEPT !.calls = {"tmdb_cast", "characters_and_relations"}]
    ELSE
      LET llm2_output == env.llm2[1]
          images == "fetch_character_images" \in cfg.active_enrichers
                        /\ su("character_list")
          temp_char_list_models ==
              IF images
                THEN fetch_and_assign_character_images(llm2_output.character_list)
                ELSE llm2_output.character_list
          w1 == IF su("character_list")
                  THEN [w EXCEPT !["character_list"] = temp_char_list_models]
                  ELSE w
          w2 == IF su("relationships")
                  THEN [w1 EXCEPT !["relationships"] =
                          deduplicate_and_normalize_relationships(
                              temp_char_list_models, llm2_output.relationships)]
                  ELSE w1
          plot_runs == /\ "constrained_plot_with_relations" \in cfg.active_enrichers
                       /\ su(PlotKey)
                       /\ env.cast # <<>>
          w3 == IF plot_runs THEN MapPut(w2, PlotKey, env.plot) ELSE w2
      IN  [w |-> w3,
           calls |-> {"tmdb_cast", "characters_and_relations"}
                     \cup (IF images THEN {"fetch_character_images"} ELSE {})
                     \cup (IF plot_runs
                             THEN {"constrained_plot_with_relations"} ELSE {}),
           ret |-> env.llm2,
           plot |-> IF plot_runs THEN env.plot ELSE <<>>]

(***************************************************************************)
(* Enricher 3: analytical data (enrichers/analytical_enricher.py).         *)
(* response is the parsed answer (<<>> when there is none).  A raw field   *)
(* is [shape, ok, v]: shape is how the LLM wrote it ("absent", "null",     *)
(* "wrapped", "bare", "scalar"), ok says whether its content satisfies the *)
(* validators of its model, v is the content.                              *)
(***************************************************************************)
DigitChars == <<"0", "1", "2", "3", "4", "5", "6", "7", "8", "9">>

IsDigitChar(c) == \E d \in 1..10 : DigitChars[d] = c

\* characters outside ASCII for which str.isdigit() is true and which int()
\* does not read, such as the superscript two
OtherDigitChars == {"²"}

\* str.isdigit()
IsDigit(s) ==
    s # <<>> /\ \A i \in 1..Len(s) : IsDigitChar(s[i]) \/ s[i] \in OtherDigitChars

\* int(s) returns (s already trimmed): the decimal digits of the alphabet
IsDecimal(s) == s # <<>> /\ \A i \in 1..Len(s) : IsDigitChar(s[i])

DigitValue(c) == (CHOOSE d \in 1..10 : DigitChars[d] = c) - 1

RECURSIVE StrToInt(_)
StrToInt(s) ==
    IF s = <<>> THEN 0
    ELSE 10 * StrToInt(SubSeq(s, 1, Len(s) - 1)) + DigitValue(s[Len(s)])

RECURSIVE IntToStr(_)
IntToStr(n) ==
    IF n < 10 THEN <<DigitChars[n + 1]>>
    ELSE Append(IntToStr(n \div 10), DigitChars[(n % 10) + 1])

\* Recommendation.validate_year_format: <<>> when the validator raises
validate_year_format(v) ==
    IF IsDigit(v)
      THEN IF IsDecimal(v) /\ 1800 <= StrToInt(v) /\ StrToInt(v) <= 2100
             THEN <<NumVal(IntToStr(StrToInt(v)))>> ELSE <<>>
      ELSE <<StrVal(v)>>

\* str(year) of a validated year: an int is kept as its decimal digits
YearStr(year) == year.v

\* lines 47-70: the three parts of one recommendation item, when it has them
RecommendationParts(item) ==
    IF item.form \in {"dict", "list3", "str3"}
         /\ item.title # <<>> /\ item.year # <<>> /\ item.explanation # <<>>
      THEN <<[title |-> Strip(item.title[1]), year |-> Strip(item.year[1]),
              explanation |-> Strip(item.explanation[1])]>>
      ELSE <<>>

RECURSIVE TransformRecommendations(_)
TransformRecommendations(items) ==
    IF items = <<>> THEN <<>>
    ELSE RecommendationParts(Head(items)) \o TransformRecommendations(Tail(items))

\* lines 44-77
TransformedRecommendations(raw) ==
    IF raw.shape = "list" THEN [raw EXCEPT !.v = TransformRecommendations(@)]
    ELSE IF raw.shape # "absent" THEN [shape |-> "list", ok |-> TRUE, v |-> <<>>]
    ELSE raw

\* lines 84-111: a bare mapping is wrapped, anything else that is not a
\* mapping becomes None
Wrapped(raw) ==
    IF raw.shape = "bare" THEN [raw EXCEPT !.shape = "wrapped"]
    ELSE IF raw.shape = "scalar" THEN [raw EXCEPT !.shape = "null"]
    ELSE raw

\* Recommendation.model_validate of every item
ValidRecommendations(items) ==
    \A i \in 1..Len(items) : validate_year_format(items[i].year) # <<>>

\* LLMCall3Output.model_validate(data) succeeds: the five fields are
\* declared without Optional (lines 143-148 of the models)
ValidLLMCall3Output(data) ==
    /\ \A f \in AnalyticalKeys \ {"recommendations"} :
          data[f].shape = "wrapped" /\ data[f].ok
    /\ data["recommendations"].shape = "list"
    /\ ValidRecommendations(data["recommendations"].v)

LLMCall3Output(data) ==
    [f \in AnalyticalKeys |->
        IF f = "recommendations"
          THEN [i \in 1..Len(data[f].v) |->
                  [title |-> data[f].v[i].title,
                   year |-> validate_year_format(data[f].v[i].year)[1],
                   explanation |-> data[f].v[i].explanation,
                   imdb_id |-> <<>>]]
          ELSE <<data[f].v>>]

generate_analytical_data(response) ==
    IF response = <<>> THEN <<>>
    ELSE LET data == response[1]
             transformed ==
                [f \in AnalyticalKeys |->
                    IF f = "recommendations" THEN TransformedRecommendations(data[f])
                    ELSE IF f \in {"genre_mix", "matching_tags"} THEN Wrapped(data[f])
                    ELSE data[f]]
         IN  IF ValidLLMCall3Output(transformed)
               THEN <<LLMCall3Output(transformed)>> ELSE <<>>

\* An analytical stage that sets the analytical fields to None when the
\* enricher returned nothing
AnalyticalStageNullOnFailure(w, cfg, is_new_movie, response) ==
    IF "analytical_data" \notin cfg.active_enrichers THEN NoCalls(w)
    ELSE
      LET skip == NotTargeted(is_new_movie, cfg.fields_to_update,
                              GroupKeys({"analytical_data"}))
          llm3_output_data == IF skip THEN <<>> ELSE generate_analytical_data(response)
          w1 == IF llm3_output_data # <<>>
                  THEN [k \in DOMAIN w |->
                          IF k \in AnalyticalKeys
                             /\ should_update_field_local(is_new_movie,
                                                          cfg.fields_to_update, k)
                            THEN llm3_output_data[1][k] ELSE w[k]]
                  ELSE [k \in (DOMAIN w) \cup AnalyticalKeys |->
                          IF k \in DOMAIN w /\ k \notin AnalyticalKeys
                            THEN w[k] ELSE <<>>]
      IN  [w |-> w1,
           calls |-> IF skip THEN {} ELSE {"analytical_data"},
           ret |-> llm3_output_data,
           plot |-> <<>>]

\* main_orchestrator.py lines 416-441
AnalyticalStage(w, cfg, is_new_movie, response) ==
    IF "analytical_data" \notin cfg.active_enrichers THEN NoCalls(w)
    ELSE
      LET skip == NotTargeted(is_new_movie, cfg.fields_to_update,
                              GroupKeys({"analytical_data"}))
          llm3_output_data == IF skip THEN <<>> ELSE generate_analytical_data(response)
          w1 == IF llm3_output_data # <<>>
                  THEN [k \in DOMAIN w |->
                          IF k \in AnalyticalKeys
                             /\ should_update_field_local(is_new_movie,
                                                          cfg.fields_to_update, k)
                            THEN llm3_output_data[1][k] ELSE w[k]]
                  ELSE [k \in (DOMAIN w) \cup AnalyticalKeys |->
                          IF k \in DOMAIN w THEN w[k] ELSE <<>>]
      IN  [w |-> w1,
           calls |-> IF skip THEN {} ELSE {"analytical_data"},
           ret |-> llm3_output_data,
           plot |-> <<>>]


(***************************************************************************)
(* Enricher 4: review summary (main_orchestrator.py lines 443-479).        *)
(* env.reviews is the list of fetched review snippets, env.summary the     *)
(* summary text of the LLM (<<>> for none).                                *)
(***************************************************************************)
ReviewStage(w, cfg, is_new_movie, env) ==
    IF "tmdb_review_summary" \notin cfg.active_enrichers
      THEN NoCalls(MapPut(w, ReviewKey, <<>>))
    ELSE IF ~should_update_field_local(is_new_movie, cfg.fields_to_update, ReviewKey)
      THEN NoCalls(w)
    ELSE IF w["tmdb_movie_id"] = <<>>
      THEN NoCalls(MapPut(w, ReviewKey, <<>>))
    ELSE IF env.reviews = <<>>
      THEN [NoCalls(MapPut(w, ReviewKey, <<>>)) EXCEPT !.calls = {"tmdb_reviews"}]
    ELSE [w |-> MapPut(w, ReviewKey, env.summary),
          calls |-> {"tmdb_reviews", "tmdb_review_summary"},
          ret |-> env.summary,
          plot |-> <<>>]

(***************************************************************************)
(* Identity resolution: fetch_master_imdb_id (lines 74-140).  world holds  *)
(* what the providers answer in this pass: details is the imdb_id of the   *)
(* external-ids document, omdb_year and omdb_title what the OMDB client    *)
(* returns with and without a year, search_year and search_title the id    *)
(* the title search returns (<<>> wherever there is no answer).            *)
(***************************************************************************)
IntArg(n) == [t |-> "int", n |-> n]
StrArg(s) == [t |-> "str", s |-> s]

\* data_providers/tmdb_api.py get_imdb_id_from_tmdb_details: only a string
\* that starts with "tt" is returned
get_imdb_id_from_tmdb_details(world, tmdb_movie_id) ==
    IF tmdb_movie_id = 0 \/ world.details = <<>> THEN <<>>
    ELSE LET imdb_id == world.details[1]
         IN  IF imdb_id.t = "str" /\ Len(imdb_id.v) >= 2
                  /\ imdb_id.v[1] = "t" /\ imdb_id.v[2] = "t"
               THEN <<imdb_id>> ELSE <<>>

\* data_providers/omdb_api.py get_imdb_id_from_omdb: the imdbID of the
\* chosen search result is returned as the provider sent it
get_imdb_id_from_omdb(world, movie_title, year) ==
    IF Strip(movie_title) = <<>> THEN <<>>
    ELSE IF year # <<>> THEN world.omdb_year ELSE world.omdb_title

\* search_tmdb_for_movie_id followed by get_imdb_id_from_tmdb_details
search_then_details(world, year) ==
    LET found == IF year # <<>> THEN world.search_year ELSE world.search_title
    IN  IF found = <<>> THEN <<>>
        ELSE get_imdb_id_from_tmdb_details(world, found[1])

\* A chain that goes through every step and returns the first identifier
RECURSIVE FirstHitNoShortCircuit(_, _)
FirstHitNoShortCircuit(steps, calls) ==
    IF steps = <<>> THEN [id |-> <<>>, calls |-> calls]
    ELSE IF ~Head(steps).enabled THEN FirstHitNoShortCircuit(Tail(steps), calls)
    ELSE LET rest == FirstHitNoShortCircuit(Tail(steps),
                                            Append(calls, Head(steps).name))
         IN  [id |-> IF Head(steps).result # <<>> THEN Head(steps).result
                     ELSE rest.id,
              calls |-> rest.calls]

\* the first step that returns an identifier ends the chain
RECURSIVE FirstHit(_, _)
FirstHit(steps, calls) ==
    IF steps = <<>> THEN [id |-> <<>>, calls |-> calls]
    ELSE IF ~Head(steps).enabled THEN FirstHit(Tail(steps), calls)
    ELSE IF Head(steps).result # <<>>
      THEN [id |-> Head(steps).result, calls |-> Append(calls, Head(steps).name)]
    ELSE FirstHit(Tail(steps), Append(calls, Head(steps).name))

fetch_master_imdb_id(world, keys, title_or_tmdb_id, year_hint, is_tmdb_id) ==
    IF ~keys.tmdb /\ ~keys.omdb THEN [id |-> <<>>, calls |-> <<>>]
    ELSE
      LET arg == title_or_tmdb_id
          truthy == IF arg.t = "int" THEN arg.n # 0 ELSE arg.s # <<>>
          as_id == is_tmdb_id /\ truthy
          is_int == arg.t = "int" \/ IsDecimal(Strip(arg.s))
          tmdb_id_int == IF arg.t = "int" THEN arg.n
                         ELSE IF is_int THEN StrToInt(Strip(arg.s)) ELSE 0
          title_str == IF as_id /\ is_int THEN <<>>
                       ELSE IF arg.t = "int" THEN IntToStr(arg.n) ELSE arg.s
          valid_year_for_api ==
              IF year_hint # <<>> /\ year_hint[1] # <<>>
                   /\ IsDigit(Strip(year_hint[1])) /\ Len(Strip(year_hint[1])) = 4
                THEN <<Strip(year_hint[1])>> ELSE <<>>
          has_title == title_str # <<>>
          has_year == valid_year_for_api # <<>>
      IN  FirstHit(
            << [name |-> "tmdb_details",
                enabled |-> as_id /\ is_int /\ keys.tmdb,
                result |-> get_imdb_id_from_tmdb_details(world, tmdb_id_int)],
               [name |-> "omdb_year",
                enabled |-> keys.omdb /\ has_title /\ has_year,
                result |-> get_imdb_id_from_omdb(world, title_str, valid_year_for_api)],
               [name |-> "tmdb_search_year",
                enabled |-> keys.tmdb /\ has_title /\ has_year,
                result |-> search_then_details(world, valid_year_for_api)],
               [name |-> "omdb_title",
                enabled |-> keys.omdb /\ has_title,
                result |-> get_imdb_id_from_omdb(world, title_str, <<>>)],
               [name |-> "tmdb_search_title",
                enabled |-> keys.tmdb /\ has_title,
                result |-> search_then_details(world, <<>>)] >>,
            <<>>)

\* the API keys of a run: startup returns when TMDB_API_KEY is missing
\* (lines 168-170); OMDB_API_KEY is optional
ApiKeys(cfg) == [tmdb |-> TRUE, omdb |-> cfg.omdb_api_key]

\* main_orchestrator.py lines 482-523
ImdbStage(w, cfg, is_new_movie, world) ==
    LET su(k) == should_update_field_local(is_new_movie, cfg.fields_to_update, k)
        keys == ApiKeys(cfg)
    IN
    IF "fetch_imdb_ids" \notin cfg.active_enrichers
         \/ NotTargeted(is_new_movie, cfg.fields_to_update,
                        GroupKeys({"fetch_imdb_ids"}) \cup RelatedKeys
                        \cup {"recommendations"})
      THEN NoCalls(w)
    ELSE
      LET fetch_main == su("imdb_id")
                          /\ (w["tmdb_movie_id"] # <<>> \/ w["movie_title"] # <<>>)
          main == IF w["tmdb_movie_id"] # <<>>
                    THEN fetch_master_imdb_id(world, keys,
                             IntArg(w["tmdb_movie_id"][1]),
                             <<w["movie_year"]>>, TRUE).id
                    ELSE fetch_master_imdb_id(world, keys,
                             StrArg(w["movie_title"]),
                             <<w["movie_year"]>>, FALSE).id
          w1 == IF fetch_main THEN [w EXCEPT !["imdb_id"] = main] ELSE w
          w2 == [k \in DOMAIN w1 |->
                    IF k \in RelatedKeys /\ w1[k] # <<>> /\ su(k)
                         /\ w1[k][1].title # <<>>
                      THEN <<[w1[k][1] EXCEPT !.imdb_id =
                                fetch_master_imdb_id(world, keys,
                                    StrArg(w1[k][1].title), <<>>, FALSE).id]>>
                      ELSE w1[k]]
          recs == w2["recommendations"]
          w3 == IF recs # <<>> /\ su("recommendations")
                  THEN [w2 EXCEPT !["recommendations"] =
                          [i \in 1..Len(recs) |->
                              IF recs[i].title # <<>>
                                THEN [title |-> recs[i].title,
                                      year |-> recs[i].year,
                                      explanation |-> recs[i].explanation,
                                      imdb_id |->
                                        fetch_master_imdb_id(world, keys,
                                            StrArg(recs[i].title),
                                            <<YearStr(recs[i].year)>>, FALSE).id]
                                ELSE recs[i]]]
                  ELSE w2
      IN  [w |-> w3,
           calls |-> {"fetch_imdb_ids"}
                     \cup (IF fetch_main THEN {"fetch_imdb_id_main"} ELSE {}),
           ret |-> IF fetch_main THEN main ELSE <<>>,
           plot |-> <<>>]

(***************************************************************************)
(* The start and the end of a pass (lines 265-284 and 525-532).            *)
(***************************************************************************)
\* lines 271-284: the working dict of a pass
InitialWorkingDict(movie_entry_input, is_new_movie) ==
    IF ~is_new_movie THEN model_dump(movie_entry_input)
    ELSE [k \in MovieEntryFields \cup {ReviewKey, PlotKey} |->
            IF k \in {"movie_title", "movie_year", "tmdb_movie_id"}
              THEN movie_entry_input[k]
              ELSE <<>>]

\* lines 525-532: the MovieEntry, or <<>> for the None of a failed validation
FinalMovieEntry(w) == IF ValidMovieEntry(w) THEN <<MovieEntry(w)>> ELSE <<>>


(***************************************************************************)
(* The values the model runs on: loaded records, provider answers and LLM  *)
(* answers.                                                                *)
(***************************************************************************)
Year2001 == <<"2", "0", "0", "1">>

TT0 == StrVal(<<"t", "t", "0">>)
TT1 == StrVal(<<"t", "t", "1">>)
TT2 == StrVal(<<"t", "t", "2">>)
\* an imdbID sent as a JSON number
Num7 == NumVal(<<"7">>)

Character(name, aliases) ==
    [name |-> name, aliases |-> aliases, image_file |-> <<>>]

Edge(source, target, directed, i) ==
    [source |-> source, target |-> target, directed |-> directed,
     description |-> i]

\* a record as MovieEntry.model_validate loads it from the file
LoadedEntry(title, tmdb_id) ==
    [f \in MovieEntryFields |->
        CASE f = "movie_title" -> title
          [] f = "movie_year" -> Year2001
          [] f = "tmdb_movie_id" -> tmdb_id
          [] f = "imdb_id" -> <<TT0>>
          [] f = "complex_search_queries" -> <<"q0">>
          [] f = "sequel" -> <<[title |-> <<"S">>, imdb_id |-> <<TT0>>]>>
          [] f = "recommendations" ->
                <<[title |-> <<"R">>, year |-> NumVal(<<"1", "9", "9", "9">>),
                   explanation |-> <<"e">>, imdb_id |-> <<TT0>>]>>
          [] f = "character_list" ->
                <<Character(<<"A">>, <<>>), Character(<<"B">>, <<>>)>>
          [] f = "relationships" -> <<Edge(<<"A">>, <<"B">>, TRUE, 0)>>
          [] f \in RelatedKeys -> <<>>
          [] OTHER -> Gen(f, 0)]

EntryA == LoadedEntry(<<"A">>, <<1>>)
EntryB == LoadedEntry(<<"B">>, <<2>>)
EntryNoId == LoadedEntry(<<"A">>, <<>>)

\* answers of the LLM to call 1, as parsed
Llm1Data(title) ==
    [f \in {"movie_title", "movie_year", "complex_search_queries"}
           \cup TextFields \cup RelatedKeys |->
        CASE f = "movie_title" -> <<title>>
          [] f = "movie_year" -> <<>>
          [] f = "complex_search_queries" -> [t |-> "str", v |-> "q1"]
          [] f = "sequel" -> << <<"S", "2", " ">> >>
          [] f = "prequel" -> << <<" ">> >>
          [] f \in RelatedKeys -> <<>>
          [] OTHER -> Gen(f, 1)]

Llm1Responses ==
    { <<>>,
      <<Llm1Data(<<"a", " ">>)>>,
      <<Llm1Data(<<"B">>)>>,
      <<[Llm1Data(<<"a", " ">>) EXCEPT !["visual_style"] = <<>>]>> }

\* answers of the cast request and of the LLM to call 2 and to the plot call
Llm2Outputs ==
    { <<>>,
      <<[character_list |->
            <<Character(<<"A">>, << <<"j">> >>), Character(<<"B">>, <<>>)>>,
         relationships |->
            <<Edge(<<"J">>, <<"a", " ">>, TRUE, 1),
              Edge(<<"a", " ">>, <<"B">>, FALSE, 2),
              Edge(<<"B">>, <<"a", " ">>, TRUE, 3)>>]>>,
      <<[character_list |-> <<>>,
         relationships |-> <<Edge(<<"C">>, <<"C">>, TRUE, 1)>>]>>,
      <<[character_list |->
            <<Character(<<"C">>, <<>>), Character(<<"B">>, <<>>)>>,
         relationships |-> <<Edge(<<"C">>, <<"B">>, TRUE, 1)>>]>> }

CharactersEnvs ==
    {e \in [cast : {<<>>, <<"Jay", "Bee">>}, llm2 : Llm2Outputs,
            plot : {<<>>, <<"plot1">>}] :
        /\ e.cast = <<>> => e.llm2 = <<>>
        /\ e.llm2 = <<>> => e.plot = <<>>}

\* answers of the LLM to call 3, as parsed
RawField(shape, ok, v) == [shape |-> shape, ok |-> ok, v |-> v]

Llm3Data ==
    [f \in AnalyticalKeys |->
        CASE f = "recommendations" ->
                RawField("list", TRUE,
                    <<[form |-> "dict", title |-> << <<"R", "1", " ">> >>,
                       year |-> << <<"0", "1", "9", "9", "8">> >>,
                       explanation |-> << <<"e", "1">> >>],
                      [form |-> "dict", title |-> << <<"R", "2">> >>,
                       year |-> <<>>,
                       explanation |-> << <<"e", "2">> >>]>>)
          [] f = "genre_mix" -> RawField("bare", TRUE, [field |-> f, gen |-> 1])
          [] OTHER -> RawField("wrapped", TRUE, [field |-> f, gen |-> 1])]

\* a Big Five object with only some traits filled, or with a score out of
\* 1..5: CharacterProfileBigFive rejects it
HalfFilledBig5 == [field |-> "character_profile_big5", gen |-> 2]

\* a tag dict with a name outside the allowed tags: MatchingTags rejects it
UnknownTags == [field |-> "matching_tags", gen |-> 2]

Llm3Responses ==
    { <<>>,
      <<Llm3Data>>,
      <<[Llm3Data EXCEPT !["character_profile_big5"] =
            RawField("null", TRUE, [field |-> "character_profile_big5", gen |-> 1])]>>,
      <<[Llm3Data EXCEPT !["character_profile_big5"] =
            RawField("wrapped", FALSE, HalfFilledBig5)]>>,
      <<[Llm3Data EXCEPT !["matching_tags"] =
            RawField("bare", FALSE, UnknownTags)]>> }

ReviewEnvs ==
    {e \in [reviews : {<<>>, <<"review1">>}, summary : {<<>>, <<"summary1">>}] :
        e.reviews = <<>> => e.summary = <<>>}

\* answers of the identity providers
NoAnswer ==
    [details |-> <<>>, omdb_year |-> <<>>, omdb_title |-> <<>>,
     search_year |-> <<>>, search_title |-> <<>>]

Worlds ==
    { NoAnswer,
      [NoAnswer EXCEPT !.details = <<TT1>>],
      [NoAnswer EXCEPT !.omdb_year = <<TT2>>, !.omdb_title = <<TT2>>],
      [NoAnswer EXCEPT !.omdb_year = <<Num7>>, !.omdb_title = <<Num7>>],
      [NoAnswer EXCEPT !.details = <<TT1>>, !.search_year = <<7>>,
                       !.search_title = <<7>>] }

\* the lists fields_to_update is drawn from
Policies ==
    { {}, {"analytical_data"}, AnalyticalKeys, {"genre_mix"},
      {"character_list"}, {"relationships"}, {"imdb_id"}, {"sequel"},
      {PlotKey}, {ReviewKey} }


(***************************************************************************)
(* Configurations, loaded collections and provider pages.                  *)
(***************************************************************************)
MaxPages == 1
MaxNew == 1
\* the pages the listing says it has
MaxTotalPages == 2

Config(active, policy) ==
    [active_enrichers |-> active,
     fields_to_update |-> policy,
     omdb_api_key |-> TRUE,
     operation_mode |-> "fetch_and_add_new",
     update_existing_if_encountered_during_fetch |-> FALSE,
     num_new_movies_to_fetch_this_session |-> 0,
     max_tmdb_top_rated_pages_to_check |-> 1,
     target_indices_for_update |-> {},
     target_movies_to_update |-> <<>>]

\* the configurations of a single pass
EnrichConfigs ==
    {Config(active, policy) : active \in SUBSET Enrichers, policy \in Policies}
    \cup {[Config(Enrichers, policy) EXCEPT !.omdb_api_key = FALSE] :
            policy \in Policies}

\* active enrichers and update policy of the runs
Selections ==
    { Config({"characters_and_relations"}, {"relationships"}),
      Config({"characters_and_relations", "fetch_character_images"},
             {"character_list"}),
      Config({"fetch_imdb_ids"}, {}),
      [Config({"fetch_imdb_ids"}, {"imdb_id"}) EXCEPT !.omdb_api_key = FALSE],
      Config({"analytical_data", "fetch_imdb_ids"}, AnalyticalKeys),
      Config({"initial_data"}, {"sequel"}) }

\* every enricher active and every field refreshed
FullRefresh == Config(Enrichers, {})

TargetSpec(title, year, imdb_id, tmdb_id) ==
    [title |-> title, year |-> year, imdb_id |-> imdb_id, tmdb_id |-> tmdb_id]

TargetLists ==
    { <<>>,
      <<TargetSpec(<<<<"a">>>>, <<>>, <<>>, <<>>)>>,
      <<TargetSpec(<<>>, <<>>, <<>>, <<2>>),
        TargetSpec(<<<<"b">>>>, <<Year2001>>, <<>>, <<>>),
        TargetSpec(<<<<"a">>>>, <<<<"1", "9", "9", "9">>>>, <<>>, <<>>)>>,
      <<TargetSpec(<<>>, <<>>, <<TT0>>, <<>>)>> }

RunConfigs ==
    UNION {
      {[c EXCEPT !.update_existing_if_encountered_during_fetch = u,
                 !.num_new_movies_to_fetch_this_session = n,
                 !.max_tmdb_top_rated_pages_to_check = m] :
          u \in BOOLEAN, n \in 0..MaxNew, m \in 1..MaxPages}
      \cup {[c EXCEPT !.operation_mode = "update_by_range",
                      !.target_indices_for_update = s] :
               s \in {{}, {0}, {1, 2}}}
      \cup {[c EXCEPT !.operation_mode = "update_by_list",
                      !.target_movies_to_update = l] : l \in TargetLists}
      \cup {[c EXCEPT !.operation_mode = "update_all_existing"],
            [c EXCEPT !.operation_mode = "update_by_title"]}
      : c \in Selections }
    \cup {[FullRefresh EXCEPT !.operation_mode = "update_by_range",
                              !.target_indices_for_update = {0}]}

\* collections as startup loads them (lines 210-219)
LoadedCollections ==
    { <<EntryA, EntryB>>, <<EntryNoId, EntryB>>, <<EntryB>> }

\* entries of a top-rated page as the provider sends them
RawMovie(id, title, release_date) ==
    [id |-> id, title |-> title, release_date |-> release_date]

RawA == RawMovie(<<1>>, << <<"a", " ">> >>, << <<"2", "0", "0", "1", "-">> >>)
RawB == RawMovie(<<2>>, << <<"B">> >>, << <<"2", "0", "0", "1", "-">> >>)
RawC == RawMovie(<<3>>, << <<"C">> >>, << <<"2", "0", "0", "1", "-">> >>)
RawNoId == RawMovie(<<>>, << <<"C">> >>, << <<"2", "0", "0", "1", "-">> >>)
RawNoYear == RawMovie(<<4>>, << <<"C">> >>, << <<"2", "0">> >>)

PageResponses ==
    {<<>>} \cup
    {<<[results |-> r, total_pages |-> t]>> :
        r \in { <<>>, <<RawA>>, <<RawA, RawB>>, <<RawNoId, RawNoYear>>,
                <<RawB, RawC>> },
        t \in {<<>>} \cup {<<n>> : n \in 1..MaxTotalPages}}

(***************************************************************************)
(* State.                                                                  *)
(***************************************************************************)
VARIABLES
    cfg,         \* app_config as the run reads it
    \* one pass of _enrich_and_update_movie_data
    p_pc,        \* the enricher the pass is at
    p_in,        \* movie_entry_input
    p_new,       \* is_new_movie
    working,     \* working_data_dict
    p_calls,     \* the external calls the pass made
    p_ret,       \* what each enricher of the pass returned
    final,       \* final_movie_entry, <<>> while there is none
    \* the run
    pc,
    all_movie_entries_master_list,
    processed_movie_titles_lower_set,
    new_movies_added_this_session,
    storage,     \* the content of output_file
    to_write,    \* the documents yaml.dump has not written yet
    saves,       \* the number of calls of save_movie_data_to_yaml
    snapshot,    \* the documents of the last save that returned
    current_tmdb_page,
    total_tmdb_pages,
    tmdb_page_data_raw,    \* what the last page request returned
    movies_on_this_page_raw,
    movies_to_target_for_session,
    \* one call of the normalizer
    d_pc,        \* "call" before, "done" after
    d_roster,    \* llm_enriched_character_list
    d_raw,       \* relationships_data_from_llm
    d_out,       \* the list the call returned
    \* one call of another function of the program
    f_pc,        \* "call" before, "done" after
    f_args,      \* its arguments and what the providers answer
    f_out        \* what the call returned

passvars == <<p_pc, p_in, p_new, working, p_calls, p_ret, final>>
runvars ==
    <<pc, all_movie_entries_master_list, processed_movie_titles_lower_set,
      new_movies_added_this_session, storage, to_write, saves, snapshot,
      current_tmdb_page, total_tmdb_pages, tmdb_page_data_raw,
      movies_on_this_page_raw, movies_to_target_for_session>>
fvars == <<f_pc, f_args, f_out>>
dvars == <<d_pc, d_roster, d_raw, d_out, fvars>>
vars == <<cfg, passvars, runvars, dvars>>


(***************************************************************************)
(* One pass of _enrich_and_update_movie_data (lines 242-532), enricher by  *)
(* enricher in the order of the code.  p_calls and p_ret record which      *)
(* calls the pass made and what the enrichers returned.                    *)
(***************************************************************************)
NoReturns ==
    [initial_data |-> <<>>, characters_and_relations |-> <<>>,
     constrained_plot_with_relations |-> <<>>, analytical_data |-> <<>>,
     tmdb_review_summary |-> <<>>, fetch_imdb_ids |-> <<>>]

RunInitialData ==
    /\ pc \in {"pass", "call"}
    /\ p_pc = "initial_data"
    /\ \E response \in Llm1Responses :
         LET r == InitialDataStage(working, cfg, p_new, response)
         IN  /\ working' = r.w
             /\ p_calls' = p_calls \cup r.calls
             /\ p_ret' = [p_ret EXCEPT !.initial_data = r.ret]
    /\ p_pc' = "characters_and_relations"
    /\ UNCHANGED <<cfg, p_in, p_new, final, dvars, runvars>>

RunCharacters ==
    /\ pc \in {"pass", "call"}
    /\ p_pc = "characters_and_relations"
    /\ \E env \in CharactersEnvs :
         LET r == CharactersStage(working, cfg, p_new, env)
         IN  /\ working' = r.w
             /\ p_calls' = p_calls \cup r.calls
             /\ p_ret' = [p_ret EXCEPT !.characters_and_relations = r.ret,
                                       !.constrained_plot_with_relations = r.plot]
    /\ p_pc' = "analytical_data"
    /\ UNCHANGED <<cfg, p_in, p_new, final, dvars, runvars>>

RunAnalytical ==
    /\ pc \in {"pass", "call"}
    /\ p_pc = "analytical_data"
    /\ \E response \in Llm3Responses :
         LET r == AnalyticalStage(working, cfg, p_new, response)
         IN  /\ working' = r.w
             /\ p_calls' = p_calls \cup r.calls
             /\ p_ret' = [p_ret EXCEPT !.analytical_data = r.ret]
    /\ p_pc' = "tmdb_review_summary"
    /\ UNCHANGED <<cfg, p_in, p_new, final, dvars, runvars>>

RunReviewSummary ==
    /\ pc \in {"pass", "call"}
    /\ p_pc = "tmdb_review_summary"
    /\ \E env \in ReviewEnvs :
         LET r == ReviewStage(working, cfg, p_new, env)
         IN  /\ working' = r.w
             /\ p_calls' = p_calls \cup r.calls
             /\ p_ret' = [p_ret EXCEPT !.tmdb_review_summary = r.ret]
    /\ p_pc' = "fetch_imdb_ids"
    /\ UNCHANGED <<cfg, p_in, p_new, final, dvars, runvars>>

RunImdb ==
    /\ pc \in {"pass", "call"}
    /\ p_pc = "fetch_imdb_ids"
    /\ \E world \in Worlds :
         LET r == ImdbStage(working, cfg, p_new, world)
         IN  /\ working' = r.w
             /\ p_calls' = p_calls \cup r.calls
             /\ p_ret' = [p_ret EXCEPT !.fetch_imdb_ids = r.ret]
    /\ p_pc' = "finalize"
    /\ UNCHANGED <<cfg, p_in, p_new, final, dvars, runvars>>

\* lines 525-532
Finalize ==
    /\ pc \in {"pass", "call"}
    /\ p_pc = "finalize"
    /\ final' = FinalMovieEntry(working)
    /\ p_pc' = "returned"
    /\ UNCHANGED <<cfg, p_in, p_new, working, p_calls, p_ret, dvars, runvars>>

PassStep ==
    \/ RunInitialData
    \/ RunCharacters
    \/ RunAnalytical
    \/ RunReviewSummary
    \/ RunImdb
    \/ Finalize


(***************************************************************************)
(* run_enrichment_pipeline (lines 144-806) after startup.                  *)
(***************************************************************************)
\* what the file holds: the documents written so far and whether the text
\* ends inside a document
File(docs) == [docs |-> docs, torn |-> FALSE]

\* [entry.model_dump(exclude_none=True) for entry in all_movie_entries_master_list]
DumpAll(entries) ==
    [i \in 1..Len(entries) |-> model_dump_exclude_none(entries[i])]

\* the first of the matching indices (the loop breaks at it), 0 for
\* idx_to_replace = -1
FirstIndex(matching) ==
    IF matching = {} THEN 0
    ELSE CHOOSE i \in matching : \A j \in matching : i <= j

\* a collection that takes every returned record as one more entry
AppendAlways(entries, idx_to_replace, final_movie_entry) ==
    Append(entries, final_movie_entry)

ReplaceOrAppend(entries, idx_to_replace, final_movie_entry) ==
    IF idx_to_replace # 0
      THEN [entries EXCEPT ![idx_to_replace] = final_movie_entry]
      ELSE Append(entries, final_movie_entry)

\* TMDBMovieResult.model_validate succeeds: id, title and release_date are
\* required (lines 181-191 of the models)
ValidTMDBMovieResult(raw) ==
    raw.id # <<>> /\ raw.title # <<>> /\ raw.release_date # <<>>

\* TMDBMovieResult.year
CandidateYear(raw) ==
    IF Len(raw.release_date[1]) >= 4
      THEN <<SubSeq(raw.release_date[1], 1, 4)>> ELSE <<>>

\* lines 572-579: the candidate is processable
Processable(raw) ==
    /\ ValidTMDBMovieResult(raw)
    /\ raw.title[1] # <<>>
    /\ CandidateYear(raw) # <<>>

\* lines 549, 665 and 673, with n new movies added
QuotaReachedAt(n) ==
    /\ n >= cfg.num_new_movies_to_fetch_this_session
    /\ ~cfg.update_existing_if_encountered_during_fetch

QuotaReached == QuotaReachedAt(new_movies_added_this_session)

\* the start of a pass: lines 265-284
BeginPass(movie_entry_input, is_new_movie) ==
    /\ p_in' = movie_entry_input
    /\ p_new' = is_new_movie
    /\ working' = InitialWorkingDict(movie_entry_input, is_new_movie)
    /\ p_calls' = {}
    /\ p_ret' = NoReturns
    /\ final' = <<>>
    /\ p_pc' = "initial_data"

\* a save that writes the changed records only
OpenForWriteChanged(entries) ==
    /\ storage' = File(<<>>)
    /\ to_write' =
          DumpAll(SelectSeq(entries,
                            LAMBDA e : \A i \in 1..Len(all_movie_entries_master_list) :
                                          all_movie_entries_master_list[i] # e))
    /\ saves' = saves + 1

\* save_movie_data_to_yaml up to open(output_file, 'w'): the file is
\* truncated and the documents wait to be written
OpenForWrite(entries) ==
    /\ storage' = File(<<>>)
    /\ to_write' = DumpAll(entries)
    /\ saves' = saves + 1

\* lines 546-551: the page loop ends
EndFetch ==
    /\ pc = "page_loop"
    /\ \/ current_tmdb_page > cfg.max_tmdb_top_rated_pages_to_check
       \/ QuotaReached
    /\ pc' = "finished"
    /\ UNCHANGED <<cfg, tmdb_page_data_raw, passvars, dvars, all_movie_entries_master_list,
                   processed_movie_titles_lower_set,
                   new_movies_added_this_session, storage, to_write, saves,
                   snapshot, current_tmdb_page, total_tmdb_pages,
                   movies_on_this_page_raw, movies_to_target_for_session>>

\* lines 553-567: one page request
FetchPage ==
    /\ pc = "page_loop"
    /\ current_tmdb_page <= cfg.max_tmdb_top_rated_pages_to_check
    /\ ~QuotaReached
    /\ \E response \in PageResponses :
         /\ tmdb_page_data_raw' = response
         /\ IF response = <<>>
              THEN /\ pc' = "finished"
                   /\ UNCHANGED <<current_tmdb_page, total_tmdb_pages,
                                  movies_on_this_page_raw>>
            ELSE IF response[1].results = <<>>
              THEN /\ IF /\ response[1].total_pages # <<>>
                         /\ current_tmdb_page >= response[1].total_pages[1]
                        THEN pc' = "finished" /\ UNCHANGED current_tmdb_page
                        ELSE pc' = "page_loop"
                             /\ current_tmdb_page' = current_tmdb_page + 1
                   /\ UNCHANGED <<total_tmdb_pages, movies_on_this_page_raw>>
            ELSE /\ movies_on_this_page_raw' = response[1].results
                 /\ total_tmdb_pages' =
                       IF response[1].total_pages # <<>>
                         THEN response[1].total_pages[1]
                         ELSE current_tmdb_page
                 /\ pc' = "page_candidates"
                 /\ UNCHANGED current_tmdb_page
    /\ UNCHANGED <<cfg, passvars, dvars, all_movie_entries_master_list,
                   processed_movie_titles_lower_set,
                   new_movies_added_this_session, storage, to_write, saves,
                   snapshot, movies_to_target_for_session>>

\* the candidate the for loop of line 569 is at
tmdb_movie_raw_dict == Head(movies_on_this_page_raw)

current_movie_title_lower == NormalizedTitle(tmdb_movie_raw_dict.title[1])

is_existing_movie ==
    current_movie_title_lower \in processed_movie_titles_lower_set

\* lines 595 and 636-639: the first entry with that normalized title
FirstWithTitle(entries, title_lower) ==
    FirstIndex({i \in 1..Len(entries) :
                  NormalizedTitle(entries[i]["movie_title"]) = title_lower})

\* lines 572-579, 588-598 and 604-606: the candidate is passed over
SkipCandidate ==
    /\ pc = "page_candidates"
    /\ movies_on_this_page_raw # <<>>
    /\ \/ ~Processable(tmdb_movie_raw_dict)
       \/ /\ Processable(tmdb_movie_raw_dict)
          /\ IF is_existing_movie
               THEN \/ ~cfg.update_existing_if_encountered_during_fetch
                    \/ FirstWithTitle(all_movie_entries_master_list,
                                      current_movie_title_lower) = 0
               ELSE new_movies_added_this_session
                        >= cfg.num_new_movies_to_fetch_this_session
    /\ movies_on_this_page_raw' = Tail(movies_on_this_page_raw)
    /\ UNCHANGED <<cfg, tmdb_page_data_raw, passvars, dvars, pc, all_movie_entries_master_list,
                   processed_movie_titles_lower_set,
                   new_movies_added_this_session, storage, to_write, saves,
                   snapshot, current_tmdb_page, total_tmdb_pages,
                   movies_to_target_for_session>>

\* lines 588-602 and 614: the pass over an existing record begins
UpdateEncountered ==
    /\ pc = "page_candidates"
    /\ movies_on_this_page_raw # <<>>
    /\ Processable(tmdb_movie_raw_dict)
    /\ is_existing_movie
    /\ cfg.update_existing_if_encountered_during_fetch
    /\ LET idx == FirstWithTitle(all_movie_entries_master_list,
                                 current_movie_title_lower)
       IN  /\ idx # 0
           /\ BeginPass(all_movie_entries_master_list[idx], FALSE)
    /\ pc' = "pass"
    /\ UNCHANGED <<cfg, tmdb_page_data_raw, dvars, all_movie_entries_master_list,
                   processed_movie_titles_lower_set,
                   new_movies_added_this_session, storage, to_write, saves,
                   snapshot, current_tmdb_page, total_tmdb_pages,
                   movies_on_this_page_raw, movies_to_target_for_session>>

\* the keyword arguments of line 610
NewMovieArguments(raw) ==
    [k \in {"movie_title", "movie_year", "tmdb_movie_id"} |->
        CASE k = "movie_title" -> raw.title[1]
          [] k = "movie_year" -> CandidateYear(raw)[1]
          [] k = "tmdb_movie_id" -> raw.id]

\* lines 603-614: a new candidate.  MovieEntry(movie_title=..., movie_year=
\* ..., tmdb_movie_id=...) is validated like every MovieEntry; when the
\* constructor raises, nothing catches the ValidationError and the run ends
NewCandidate ==
    /\ pc = "page_candidates"
    /\ movies_on_this_page_raw # <<>>
    /\ Processable(tmdb_movie_raw_dict)
    /\ ~is_existing_movie
    /\ new_movies_added_this_session < cfg.num_new_movies_to_fetch_this_session
    /\ IF ValidMovieEntry(NewMovieArguments(tmdb_movie_raw_dict))
         THEN /\ BeginPass(MovieEntry(NewMovieArguments(tmdb_movie_raw_dict)), TRUE)
              /\ pc' = "pass"
         ELSE /\ pc' = "raised"
              /\ UNCHANGED passvars
    /\ UNCHANGED <<cfg, tmdb_page_data_raw, dvars, all_movie_entries_master_list,
                   processed_movie_titles_lower_set,
                   new_movies_added_this_session, storage, to_write, saves,
                   snapshot, current_tmdb_page, total_tmdb_pages,
                   movies_on_this_page_raw, movies_to_target_for_session>>

\* a loop that stays on its candidate
StayOnCandidate == UNCHANGED movies_on_this_page_raw

\* lines 665-667 after a candidate: the for loop goes on or breaks
AfterCandidate ==
    movies_on_this_page_raw' =
        IF QuotaReached THEN <<>> ELSE Tail(movies_on_this_page_raw)

\* a commit that counts every returned record, refreshed ones included
CommitCandidateCounting ==
    /\ pc = "pass" /\ p_pc = "returned"
    /\ cfg.operation_mode = "fetch_and_add_new"
    /\ final # <<>>
    /\ LET final_movie_entry == final[1]
           idx_to_replace ==
              FirstWithTitle(all_movie_entries_master_list,
                             NormalizedTitle(final_movie_entry["movie_title"]))
       IN  /\ all_movie_entries_master_list' =
                 IF ~p_new
                   THEN ReplaceOrAppend(all_movie_entries_master_list,
                                        idx_to_replace, final_movie_entry)
                   ELSE Append(all_movie_entries_master_list, final_movie_entry)
           /\ processed_movie_titles_lower_set' =
                 processed_movie_titles_lower_set
                 \cup {NormalizedTitle(final_movie_entry["movie_title"])}
           /\ new_movies_added_this_session' = new_movies_added_this_session + 1
    /\ OpenForWrite(all_movie_entries_master_list')
    /\ pc' = "saving"
    /\ UNCHANGED <<cfg, tmdb_page_data_raw, passvars, dvars, snapshot, current_tmdb_page,
                   total_tmdb_pages, movies_on_this_page_raw,
                   movies_to_target_for_session>>

\* lines 634-655: the pass returned a record
CommitCandidate ==
    /\ pc = "pass" /\ p_pc = "returned"
    /\ cfg.operation_mode = "fetch_and_add_new"
    /\ final # <<>>
    /\ LET final_movie_entry == final[1]
           idx_to_replace ==
              FirstWithTitle(all_movie_entries_master_list,
                             NormalizedTitle(final_movie_entry["movie_title"]))
       IN  IF ~p_new
             THEN /\ all_movie_entries_master_list' =
                        ReplaceOrAppend(all_movie_entries_master_list,
                                        idx_to_replace, final_movie_entry)
                  /\ UNCHANGED <<processed_movie_titles_lower_set,
                                 new_movies_added_this_session>>
             ELSE /\ all_movie_entries_master_list' =
                        Append(all_movie_entries_master_list, final_movie_entry)
                  /\ processed_movie_titles_lower_set' =
                        processed_movie_titles_lower_set
                        \cup {NormalizedTitle(final_movie_entry["movie_title"])}
                  /\ new_movies_added_this_session' =
                        new_movies_added_this_session + 1
    /\ OpenForWrite(all_movie_entries_master_list')
    /\ pc' = "saving"
    /\ UNCHANGED <<cfg, tmdb_page_data_raw, passvars, dvars, snapshot, current_tmdb_page,
                   total_tmdb_pages, movies_on_this_page_raw,
                   movies_to_target_for_session>>

\* a rejection that records the candidate's title as the provider sent it
RejectCandidateRawTitle ==
    /\ pc = "pass" /\ p_pc = "returned"
    /\ cfg.operation_mode = "fetch_and_add_new"
    /\ final = <<>>
    /\ processed_movie_titles_lower_set' =
          IF ~p_new
            THEN processed_movie_titles_lower_set \cup {tmdb_movie_raw_dict.title[1]}
            ELSE processed_movie_titles_lower_set
    /\ UNCHANGED new_movies_added_this_session
    /\ AfterCandidate
    /\ pc' = "page_candidates"
    /\ UNCHANGED <<cfg, tmdb_page_data_raw, passvars, dvars, all_movie_entries_master_list,
                   storage, to_write, saves, snapshot, current_tmdb_page,
                   total_tmdb_pages, movies_to_target_for_session>>

\* lines 656-667: the pass returned None
RejectCandidate ==
    /\ pc = "pass" /\ p_pc = "returned"
    /\ cfg.operation_mode = "fetch_and_add_new"
    /\ final = <<>>
    /\ processed_movie_titles_lower_set' =
          IF ~p_new
            THEN processed_movie_titles_lower_set \cup {current_movie_title_lower}
            ELSE processed_movie_titles_lower_set
    /\ UNCHANGED new_movies_added_this_session
    /\ AfterCandidate
    /\ pc' = "page_candidates"
    /\ UNCHANGED <<cfg, tmdb_page_data_raw, passvars, dvars, all_movie_entries_master_list,
                   storage, to_write, saves, snapshot, current_tmdb_page,
                   total_tmdb_pages, movies_to_target_for_session>>

\* An end of page that goes back to the loop on the same page
EndOfPageSamePage ==
    /\ pc = "page_candidates"
    /\ movies_on_this_page_raw = <<>>
    /\ pc' = IF QuotaReached THEN "finished" ELSE "page_loop"
    /\ UNCHANGED <<cfg, passvars, dvars, all_movie_entries_master_list,
                   processed_movie_titles_lower_set,
                   new_movies_added_this_session, storage, to_write, saves,
                   snapshot, current_tmdb_page, total_tmdb_pages,
                   tmdb_page_data_raw, movies_on_this_page_raw,
                   movies_to_target_for_session>>

\* lines 670-684: the end of a page
EndOfPage ==
    /\ pc = "page_candidates"
    /\ movies_on_this_page_raw = <<>>
    /\ IF QuotaReached
         THEN pc' = "finished" /\ UNCHANGED current_tmdb_page
         ELSE /\ current_tmdb_page' = current_tmdb_page + 1
              /\ pc' = IF current_tmdb_page + 1 > total_tmdb_pages
                         THEN "finished" ELSE "page_loop"
    /\ UNCHANGED <<cfg, tmdb_page_data_raw, passvars, dvars, all_movie_entries_master_list,
                   processed_movie_titles_lower_set,
                   new_movies_added_this_session, storage, to_write, saves,
                   snapshot, total_tmdb_pages, movies_on_this_page_raw,
                   movies_to_target_for_session>>

\* lines 713-738: the entry one target specifier selects, <<>> for none
SpecifierMatch(entries, target_spec) ==
    LET is_title_match(entry) ==
            target_spec.title # <<>> /\ target_spec.title[1] # <<>>
            /\ Lower(entry["movie_title"]) = Lower(target_spec.title[1])
        is_year_match(entry) ==
            target_spec.year # <<>> /\ entry["movie_year"] = target_spec.year[1]
        is_imdb_match(entry) ==
            target_spec.imdb_id # <<>> /\ entry["imdb_id"] = target_spec.imdb_id
        is_tmdb_match(entry) ==
            target_spec.tmdb_id # <<>>
            /\ entry["tmdb_movie_id"] = target_spec.tmdb_id
        selects(entry) ==
            \/ is_imdb_match(entry) \/ is_tmdb_match(entry)
            \/ is_title_match(entry) /\ is_year_match(entry)
            \/ /\ is_title_match(entry)
               /\ target_spec.imdb_id = <<>> /\ target_spec.tmdb_id = <<>>
               /\ target_spec.year = <<>>
        idx == FirstIndex({i \in 1..Len(entries) : selects(entries[i])})
    IN  IF idx = 0 THEN <<>> ELSE <<entries[idx]>>

RECURSIVE SpecifierMatches(_, _)
SpecifierMatches(entries, specs) ==
    IF specs = <<>> THEN <<>>
    ELSE SpecifierMatch(entries, Head(specs))
            \o SpecifierMatches(entries, Tail(specs))

\* lines 702-704: the entries at the targeted indices, in list order
RECURSIVE EntriesAt(_, _, _)
EntriesAt(entries, indices, i) ==
    IF i > Len(entries) THEN <<>>
    ELSE (IF (i - 1) \in indices THEN <<entries[i]>> ELSE <<>>)
            \o EntriesAt(entries, indices, i + 1)

\* lines 686-746 and 796-798: the targets of an update run
SelectTargets ==
    /\ pc = "select_targets"
    /\ LET targets ==
              CASE cfg.operation_mode = "update_by_range" ->
                      EntriesAt(all_movie_entries_master_list,
                                cfg.target_indices_for_update, 1)
                [] cfg.operation_mode = "update_by_list" ->
                      SpecifierMatches(all_movie_entries_master_list,
                                       cfg.target_movies_to_update)
                [] cfg.operation_mode = "update_all_existing" ->
                      all_movie_entries_master_list
                [] OTHER -> <<>>
       IN  /\ movies_to_target_for_session' = targets
           /\ pc' = IF targets = <<>> THEN "finished" ELSE "targets"
    /\ UNCHANGED <<cfg, tmdb_page_data_raw, passvars, dvars, all_movie_entries_master_list,
                   processed_movie_titles_lower_set,
                   new_movies_added_this_session, storage, to_write, saves,
                   snapshot, current_tmdb_page, total_tmdb_pages,
                   movies_on_this_page_raw>>

\* the target the for loop of line 748 is at
movie_entry_to_update == Head(movies_to_target_for_session)

\* lines 748-769: the pass over a targeted record begins
UpdateTarget ==
    /\ pc = "targets"
    /\ movies_to_target_for_session # <<>>
    /\ BeginPass(movie_entry_to_update, FALSE)
    /\ pc' = "pass"
    /\ UNCHANGED <<cfg, tmdb_page_data_raw, dvars, all_movie_entries_master_list,
                   processed_movie_titles_lower_set,
                   new_movies_added_this_session, storage, to_write, saves,
                   snapshot, current_tmdb_page, total_tmdb_pages,
                   movies_on_this_page_raw, movies_to_target_for_session>>

\* line 748: no target is left
TargetsDone ==
    /\ pc = "targets"
    /\ movies_to_target_for_session = <<>>
    /\ pc' = "finished"
    /\ UNCHANGED <<cfg, tmdb_page_data_raw, passvars, dvars, all_movie_entries_master_list,
                   processed_movie_titles_lower_set,
                   new_movies_added_this_session, storage, to_write, saves,
                   snapshot, current_tmdb_page, total_tmdb_pages,
                   movies_on_this_page_raw, movies_to_target_for_session>>

\* a lookup that always answers the last position of the collection
LastPosition(entries, target) == Len(entries)

\* lines 772-777: the first entry with the target's id and normalized title
FirstSameRecord(entries, target) ==
    FirstIndex({i \in 1..Len(entries) :
                  /\ entries[i]["tmdb_movie_id"] = target["tmdb_movie_id"]
                  /\ NormalizedTitle(entries[i]["movie_title"])
                        = NormalizedTitle(target["movie_title"])})

\* lines 771-790: the pass over a target returned a record
CommitTarget ==
    /\ pc = "pass" /\ p_pc = "returned"
    /\ cfg.operation_mode # "fetch_and_add_new"
    /\ final # <<>>
    /\ all_movie_entries_master_list' =
          ReplaceOrAppend(all_movie_entries_master_list,
                          FirstSameRecord(all_movie_entries_master_list,
                                          movie_entry_to_update),
                          final[1])
    /\ OpenForWrite(all_movie_entries_master_list')
    /\ pc' = "saving"
    /\ UNCHANGED <<cfg, tmdb_page_data_raw, passvars, dvars, processed_movie_titles_lower_set,
                   new_movies_added_this_session, snapshot, current_tmdb_page,
                   total_tmdb_pages, movies_on_this_page_raw,
                   movies_to_target_for_session>>

\* lines 791-794: the pass over a target returned None
RejectTarget ==
    /\ pc = "pass" /\ p_pc = "returned"
    /\ cfg.operation_mode # "fetch_and_add_new"
    /\ final = <<>>
    /\ movies_to_target_for_session' = Tail(movies_to_target_for_session)
    /\ pc' = "targets"
    /\ UNCHANGED <<cfg, tmdb_page_data_raw, passvars, dvars, all_movie_entries_master_list,
                   processed_movie_titles_lower_set,
                   new_movies_added_this_session, storage, to_write, saves,
                   snapshot, current_tmdb_page, total_tmdb_pages,
                   movies_on_this_page_raw>>

\* utils/helpers.py line 78: yaml.dump writes the next document to the file
WriteDocument ==
    /\ pc = "saving"
    /\ to_write # <<>>
    /\ storage' = File(Append(storage.docs, Head(to_write)))
    /\ to_write' = Tail(to_write)
    /\ UNCHANGED <<cfg, tmdb_page_data_raw, passvars, dvars, pc, all_movie_entries_master_list,
                   processed_movie_titles_lower_set,
                   new_movies_added_this_session, saves, snapshot,
                   current_tmdb_page, total_tmdb_pages,
                   movies_on_this_page_raw, movies_to_target_for_session>>

\* utils/helpers.py lines 77-80: the file is closed, the save returns and
\* the loop goes to its next candidate (lines 661-667 and 794)
SaveReturns ==
    /\ pc = "saving"
    /\ to_write = <<>>
    /\ snapshot' = storage.docs
    /\ IF cfg.operation_mode = "fetch_and_add_new"
         THEN /\ AfterCandidate
              /\ pc' = "page_candidates"
              /\ UNCHANGED movies_to_target_for_session
         ELSE /\ movies_to_target_for_session' = Tail(movies_to_target_for_session)
              /\ pc' = "targets"
              /\ UNCHANGED movies_on_this_page_raw
    /\ UNCHANGED <<cfg, tmdb_page_data_raw, passvars, dvars, all_movie_entries_master_list,
                   processed_movie_titles_lower_set,
                   new_movies_added_this_session, storage, to_write, saves,
                   current_tmdb_page, total_tmdb_pages>>

\* the process is killed from outside.  While yaml.dump is writing, the
\* file may end inside the document being written.
Kill ==
    /\ pc \in {"page_loop", "page_candidates", "select_targets", "targets",
               "pass", "saving"}
    /\ pc' = "killed"
    /\ IF pc = "saving" /\ to_write # <<>>
         THEN \E torn \in BOOLEAN : storage' = [storage EXCEPT !.torn = torn]
         ELSE UNCHANGED storage
    /\ UNCHANGED <<cfg, tmdb_page_data_raw, passvars, dvars, all_movie_entries_master_list,
                   processed_movie_titles_lower_set,
                   new_movies_added_this_session, to_write, saves, snapshot,
                   current_tmdb_page, total_tmdb_pages,
                   movies_on_this_page_raw, movies_to_target_for_session>>


(***************************************************************************)
(* Initial states and specifications.                                      *)
(***************************************************************************)
IdlePass ==
    /\ p_pc = "idle" /\ p_in = <<>> /\ p_new = FALSE /\ working = <<>>
    /\ p_calls = {} /\ p_ret = NoReturns /\ final = <<>>

IdleRun(collection) ==
    /\ all_movie_entries_master_list = collection
    /\ processed_movie_titles_lower_set =
          {NormalizedTitle(collection[i]["movie_title"]) : i \in 1..Len(collection)}
    /\ new_movies_added_this_session = 0
    /\ storage = File(DumpAll(collection))
    /\ to_write = <<>>
    /\ saves = 0
    /\ snapshot = DumpAll(collection)
    /\ current_tmdb_page = 1
    /\ total_tmdb_pages = 1
    /\ tmdb_page_data_raw = <<>>
    /\ movies_on_this_page_raw = <<>>
    /\ movies_to_target_for_session = <<>>

IdleNormalizer ==
    d_pc = "idle" /\ d_roster = <<>> /\ d_raw = <<>> /\ d_out = <<>>

IdleCall == f_pc = "idle" /\ f_args = <<>> /\ f_out = <<>>

IdleDedup == IdleNormalizer /\ IdleCall

\* the run after startup (lines 144-239 and 535-541)
Init ==
    /\ cfg \in RunConfigs
    /\ \E collection \in LoadedCollections : IdleRun(collection)
    /\ pc = IF cfg.operation_mode = "fetch_and_add_new"
              THEN "page_loop" ELSE "select_targets"
    /\ IdlePass
    /\ IdleDedup

Next ==
    \/ EndFetch
    \/ FetchPage
    \/ SkipCandidate
    \/ UpdateEncountered
    \/ NewCandidate
    \/ CommitCandidate
    \/ RejectCandidate
    \/ EndOfPage
    \/ SelectTargets
    \/ UpdateTarget
    \/ TargetsDone
    \/ CommitTarget
    \/ RejectTarget
    \/ PassStep
    \/ WriteDocument
    \/ SaveReturns
    \/ Kill

Spec == Init /\ [][Next]_vars

\* one call of _enrich_and_update_movie_data, at its first line
EnrichInit ==
    /\ cfg \in EnrichConfigs
    /\ pc = "call"
    /\ IdleRun(<<>>)
    /\ p_in \in {EntryA, EntryNoId}
    /\ p_new \in BOOLEAN
    /\ p_new => p_in["tmdb_movie_id"] # <<>>
    /\ working = InitialWorkingDict(p_in, p_new)
    /\ p_pc = "initial_data"
    /\ p_calls = {} /\ p_ret = NoReturns /\ final = <<>>
    /\ IdleDedup

SpecEnrich == EnrichInit /\ [][PassStep]_vars


(***************************************************************************)
(* Inputs of the normalizer.                                               *)
(***************************************************************************)
MaxEdges == 2

charA      == [name |-> <<"A">>,      aliases |-> << <<"j">> >>]
charB      == [name |-> <<"B", " ">>, aliases |-> <<>>]
charBlank  == [name |-> <<" ">>,      aliases |-> << <<"J">> >>]
charLowerA == [name |-> <<"a">>,      aliases |-> <<>>]

Rosters ==
    { <<>>, <<charBlank>>, <<charA>>, <<charB>>, <<charA, charB>>,
      <<charBlank, charB>>, <<charA, charLowerA>>, <<charLowerA, charA>>,
      <<charA, charB, charLowerA>> }

EdgeNames == { <<"a", " ">>, <<"B">>, <<"J">>, <<" ">> }

RawEdges == [source : EdgeNames, target : EdgeNames, directed : BOOLEAN]

\* the raw lists of at most MaxEdges edges, the i-th edge described as i
EdgeLists ==
    { [i \in 1..Len(l) |-> [source |-> l[i].source, target |-> l[i].target,
                              directed |-> l[i].directed, description |-> i]]
      : l \in SeqsUpTo(RawEdges, MaxEdges) }

DedupInit ==
    /\ d_pc = "call"
    /\ d_roster \in Rosters
    /\ d_raw \in EdgeLists
    /\ d_out = <<>>
    /\ cfg = Config({}, {})
    /\ pc = "idle"
    /\ IdleRun(<<>>)
    /\ IdlePass
    /\ IdleCall

DedupCall ==
    /\ d_pc = "call"
    /\ d_out' = deduplicate_and_normalize_relationships(d_roster, d_raw)
    /\ d_pc' = "done"
    /\ UNCHANGED <<d_roster, d_raw, fvars, cfg, passvars, runvars>>

SpecDedup == DedupInit /\ [][DedupCall]_vars


(***************************************************************************)
(* Properties of the normalizer.  They are stated with the definitions     *)
(* below, which read the roster directly and not the lookup table.         *)
(***************************************************************************)
RosterEntries(roster) == {roster[i] : i \in 1..Len(roster)}

\* the canonical names of a roster: its trimmed, non-empty names
CanonicalNames(roster) == {Strip(e.name) : e \in RosterEntries(roster)} \ {<<>>}

AliasKeys(e) == {Lower(Strip(e.aliases[i])) : i \in 1..Len(e.aliases)}

\* the canonical names of the named characters that n matches, by name or
\* by alias, case-insensitively and up to surrounding blanks
CanonOf(roster, n) ==
    {Strip(e.name) : e \in {x \in RosterEntries(roster) :
                                /\ Strip(x.name) # <<>>
                                /\ \/ Lower(Strip(n)) = Lower(Strip(x.name))
                                   \/ Lower(Strip(n)) \in AliasKeys(x)}}

EdgePair(e) == {e.source, e.target}

EdgesBetween(out, pair) == {k \in 1..Len(out) : EdgePair(out[k]) = pair}

\* C8: for a roster with at least one non-empty name the returned list has at
\* most one edge per unordered character pair, whatever the directed flags,
\* every source and target in it is a canonical roster name, and a list that
\* opens with A-B undirected followed by B-A directed, A and B two different
\* characters, leaves exactly one edge between A and B.
C8_OneEdgePerPair ==
    (d_pc = "done" /\ CanonicalNames(d_roster) # {}) =>
        /\ \A i, j \in 1..Len(d_out) :
              i # j => EdgePair(d_out[i]) # EdgePair(d_out[j])
        /\ \A k \in 1..Len(d_out) :
              /\ d_out[k].source \in CanonicalNames(d_roster)
              /\ d_out[k].target \in CanonicalNames(d_roster)
        /\ (/\ Len(d_raw) >= 2
             /\ d_raw[2].source = d_raw[1].target
             /\ d_raw[2].target = d_raw[1].source
             /\ ~d_raw[1].directed /\ d_raw[2].directed) =>
              LET cs == CanonOf(d_roster, d_raw[1].source)
                  ct == CanonOf(d_roster, d_raw[1].target)
              IN  (Cardinality(cs) = 1 /\ Cardinality(ct) = 1 /\ cs # ct) =>
                      Cardinality(EdgesBetween(d_out, cs \cup ct)) = 1

C8_Witness ==
    /\ d_pc = "done"
    /\ d_roster = <<charA, charB>>
    /\ Len(d_raw) = 2
    /\ d_raw[1].source = <<"a", " ">> /\ d_raw[1].target = <<"B">>
    /\ ~d_raw[1].directed
    /\ d_raw[2].source = <<"B">> /\ d_raw[2].target = <<"a", " ">>
    /\ d_raw[2].directed
    /\ Len(d_out) = 1
    /\ EdgePair(d_out[1]) = {<<"A">>, <<"B">>}

\* every returned edge is a raw edge whose source and target both matched a
\* named character, with both rewritten to the canonical name of a character
\* they matched
KeptEdgesMatchRoster ==
    \A k \in 1..Len(d_out) :
        LET i == d_out[k].description
        IN  /\ i \in 1..Len(d_raw)
            /\ d_out[k].directed = d_raw[i].directed
            /\ d_out[k].source \in CanonOf(d_roster, d_raw[i].source)
            /\ d_out[k].target \in CanonOf(d_roster, d_raw[i].target)

\* C10 as claimed: whatever the roster, an edge whose trimmed source or target
\* matches no roster name or alias is dropped, and a kept edge carries the
\* canonical names of the characters it matched.
C10_AsClaimed == d_pc = "done" => KeptEdgesMatchRoster

\* C10 amended: the same for a roster with at least one non-empty name; a
\* roster without one makes the function return the raw edges unchanged.
C10_DropsUnknownRewritesKnown ==
    d_pc = "done" =>
        IF CanonicalNames(d_roster) # {} THEN KeptEdgesMatchRoster
        ELSE d_out = d_raw

C10_Witness ==
    /\ d_pc = "done"
    /\ CanonicalNames(d_roster) # {}
    /\ \E i \in 1..Len(d_raw) :
          /\ Strip(d_raw[i].source) # <<>> /\ Strip(d_raw[i].target) # <<>>
          /\ CanonOf(d_roster, d_raw[i].source) = {}
          /\ \A k \in 1..Len(d_out) : d_out[k].description # i
    /\ \E k \in 1..Len(d_out) :
          /\ d_raw[d_out[k].description].source = <<"J">>
          /\ d_out[k].source = <<"A">>

(***************************************************************************)
(* Properties of one pass.  They are stated on the state in which the pass *)
(* has returned, against the dict the pass started from.                   *)
(***************************************************************************)
Returned == p_pc = "returned"

\* the values the pass started from: the record's for an existing record,
\* null or empty for a new one
Before == InitialWorkingDict(p_in, p_new)

\* a field without the identifiers identity resolution writes into it
WithoutImdb(f, v) ==
    IF f \in RelatedKeys THEN (IF v = <<>> THEN <<>> ELSE <<v[1].title>>)
    ELSE IF f = "recommendations"
      THEN [i \in 1..Len(v) |->
              [title |-> v[i].title, year |-> v[i].year,
               explanation |-> v[i].explanation]]
    ELSE v

SameButImdb(f, a, b) == WithoutImdb(f, a) = WithoutImdb(f, b)

AllActiveUpdate(policy) ==
    /\ pc = "call" /\ Returned /\ ~p_new
    /\ cfg.active_enrichers = Enrichers
    /\ cfg.fields_to_update = policy

RosterAndInitialDataUnchanged ==
    \A f \in {"character_list", "relationships"} \cup GroupKeys({"initial_data"}) :
        working[f] = p_in[f]

AnalyticalRecomputed(keys) ==
    /\ "analytical_data" \in p_calls
    /\ p_ret.analytical_data # <<>> =>
          \A f \in keys : SameButImdb(f, working[f], p_ret.analytical_data[1][f])

FirstCall(e) ==
    CASE e = "characters_and_relations" -> "tmdb_cast"
      [] e = "tmdb_review_summary" -> "tmdb_reviews"
      [] OTHER -> e

FieldEnrichers ==
    {"initial_data", "characters_and_relations", "constrained_plot_with_relations",
     "analytical_data", "tmdb_review_summary", "fetch_imdb_ids"}

\* the enrichers that were called in the pass and returned nothing
FailedEnrichers ==
    {e \in FieldEnrichers \ {"fetch_imdb_ids"} :
        FirstCall(e) \in p_calls /\ p_ret[e] = <<>>}
    \cup (IF "fetch_imdb_id_main" \in p_calls /\ p_ret.fetch_imdb_ids = <<>>
            THEN {"fetch_imdb_ids"} ELSE {})

GroupFieldsKept(e) ==
    \A f \in GroupKeys({e}) : SameButImdb(f, Get(working, f), Get(Before, f))

\* an enricher whose block the configuration and the record let the pass
\* enter; the plot enricher needs the roster the roster enricher returns
Due(e) ==
    /\ e \in cfg.active_enrichers
    /\ CASE e = "initial_data" ->
              ~NotTargeted(p_new, cfg.fields_to_update, GroupKeys({e}))
         [] e = "characters_and_relations" ->
              /\ ~NotTargeted(p_new, cfg.fields_to_update,
                     GroupKeys({e, "constrained_plot_with_relations"})
                     \cup {"fetch_character_images"})
              /\ p_in["tmdb_movie_id"] # <<>>
         [] e = "constrained_plot_with_relations" ->
              /\ should_update_field_local(p_new, cfg.fields_to_update, PlotKey)
              /\ p_ret.characters_and_relations # <<>>
         [] e = "analytical_data" ->
              ~NotTargeted(p_new, cfg.fields_to_update, GroupKeys({e}))
         [] e = "tmdb_review_summary" ->
              /\ should_update_field_local(p_new, cfg.fields_to_update, ReviewKey)
              /\ p_in["tmdb_movie_id"] # <<>>
         [] e = "fetch_imdb_ids" ->
              ~NotTargeted(p_new, cfg.fields_to_update,
                  GroupKeys({e}) \cup RelatedKeys \cup {"recommendations"})

\* C6, as claimed: when an enricher (initial data, roster, analytical,
\* review summary, constrained plot, identity resolution) fails in a pass,
\* the fields of its group keep the values they had (existing record) or
\* stay null or empty (new record), and every other enricher that is due in
\* the pass is still run.
C6_AsClaimed ==
    (pc = "call" /\ Returned) =>
        \A e \in FailedEnrichers :
            /\ GroupFieldsKept(e)
            /\ \A o \in FieldEnrichers \ {e} : Due(o) => FirstCall(o) \in p_calls

\* every field an enricher returned is in the working dict
ReturnsMerged ==
    /\ p_ret.initial_data # <<>> =>
          \A f \in GroupKeys({"initial_data"}) :
              SameButImdb(f, working[f], InitialValue(f, p_ret.initial_data[1][f]))
    /\ p_ret.characters_and_relations # <<>> =>
          /\ [i \in 1..Len(working["character_list"]) |->
                 working["character_list"][i].name]
               = [i \in 1..Len(p_ret.characters_and_relations[1].character_list) |->
                     p_ret.characters_and_relations[1].character_list[i].name]
          /\ working["relationships"]
               = deduplicate_and_normalize_relationships(
                    working["character_list"],
                    p_ret.characters_and_relations[1].relationships)
    /\ p_ret.constrained_plot_with_relations # <<>> =>
          working[PlotKey] = p_ret.constrained_plot_with_relations
    /\ p_ret.analytical_data # <<>> =>
          \A f \in AnalyticalKeys :
              SameButImdb(f, working[f], p_ret.analytical_data[1][f])
    /\ p_ret.tmdb_review_summary # <<>> =>
          working[ReviewKey] = p_ret.tmdb_review_summary
    /\ "fetch_imdb_id_main" \in p_calls =>
          working["imdb_id"] = p_ret.fetch_imdb_ids

DistinctTitles(entries) ==
    \A i, j \in 1..Len(entries) :
        i # j => NormalizedTitle(entries[i]["movie_title"])
                    # NormalizedTitle(entries[j]["movie_title"])

\* C2: a run that starts from a collection with distinct normalized titles
\* keeps at most one record per normalized title in the in-memory
\* collection, in the storage file and in every completed snapshot.
C2_OneRecordPerTitle ==
    /\ DistinctTitles(all_movie_entries_master_list)
    /\ DistinctTitles(storage.docs)
    /\ DistinctTitles(snapshot)

C2_Witness ==
    /\ pc = "finished"
    /\ saves = 2
    /\ Len(all_movie_entries_master_list) = 2
    /\ snapshot = DumpAll(all_movie_entries_master_list)
    /\ \A i \in 1..2 :
          all_movie_entries_master_list[i]["genre_mix"] = Gen("genre_mix", 1)

\* C3, as claimed: when the process is killed, the storage file is whole and
\* holds the collection as of the last fully processed movie (the snapshot of
\* the last completed save, or the collection of a save whose documents are
\* all written).
C3_AsClaimed ==
    pc = "killed" =>
        /\ ~storage.torn
        /\ \/ storage.docs = snapshot
           \/ storage.docs = DumpAll(all_movie_entries_master_list)

PassReturned == pc = "pass" /\ p_pc = "returned"

\* C4: a pass returns no record exactly when its working record fails the
\* final validation; until the run leaves such a pass the in-memory
\* collection, the storage file and the new-movie counter stay as they were,
\* and the run leaves it for the next candidate.
C4_RejectedCandidateLeavesNoTrace ==
    [][ /\ p_pc' = "returned" => (final' = <<>> <=> ~ValidMovieEntry(working'))
        /\ (pc = "pass" /\ ~(p_pc = "returned" /\ final # <<>>)) =>
              UNCHANGED <<all_movie_entries_master_list, storage, to_write,
                          saves, snapshot, new_movies_added_this_session>>
        /\ (PassReturned /\ final = <<>> /\ pc' # "killed") =>
              IF cfg.operation_mode = "fetch_and_add_new"
                THEN /\ pc' = "page_candidates"
                     /\ movies_on_this_page_raw'
                          = (IF QuotaReached THEN <<>>
                             ELSE Tail(movies_on_this_page_raw))
                ELSE /\ pc' = "targets"
                     /\ movies_to_target_for_session'
                          = Tail(movies_to_target_for_session)
      ]_vars

\* the second record of a two-record collection is in its pass and nothing
\* was saved: the pass of the first record returned no record
C4_Witness ==
    /\ cfg.operation_mode = "update_all_existing"
    /\ Len(all_movie_entries_master_list) = 2
    /\ Len(movies_to_target_for_session) = 1
    /\ PassReturned /\ final = <<>> /\ ~ValidMovieEntry(working)
    /\ saves = 0
    /\ storage = File(snapshot)

\* the collection after final_movie_entry took the place of the entry with
\* its normalized title, or was appended when there is none
Upserted(entries, final_movie_entry) ==
    LET same == {i \in 1..Len(entries) :
                    NormalizedTitle(entries[i]["movie_title"])
                       = NormalizedTitle(final_movie_entry["movie_title"])}
    IN  IF same = {} THEN Append(entries, final_movie_entry)
        ELSE [i \in 1..Len(entries) |->
                 IF i \in same THEN final_movie_entry ELSE entries[i]]

\* C5: the storage file is opened for writing exactly when a pass has
\* returned a record, once for that record; the write takes the whole
\* in-memory collection, in which the record has replaced the entry of its
\* title (or was appended when there was none), and when the save returns
\* the file holds that whole collection.
C5_OneFullWritePerValidCandidate ==
    [][ /\ (saves' # saves \/ (storage' # storage /\ pc # "saving")) =>
              /\ PassReturned /\ final # <<>>
              /\ saves' = saves + 1
              /\ all_movie_entries_master_list'
                    = Upserted(all_movie_entries_master_list, final[1])
              /\ storage' = File(<<>>)
              /\ to_write' = DumpAll(all_movie_entries_master_list')
        /\ (PassReturned /\ final # <<>> /\ pc' # "killed") =>
              saves' = saves + 1 /\ pc' = "saving"
        /\ (pc = "saving" /\ pc' # "killed") =>
              /\ UNCHANGED <<saves, all_movie_entries_master_list>>
              /\ storage.docs \o to_write = DumpAll(all_movie_entries_master_list)
              /\ pc' # "saving" =>
                    /\ storage = File(DumpAll(all_movie_entries_master_list))
                    /\ snapshot' = storage.docs
      ]_vars

C5_Witness ==
    /\ pc = "targets"
    /\ saves = 1
    /\ Len(all_movie_entries_master_list) = 2
    /\ all_movie_entries_master_list[1]["imdb_id"] = <<TT1>>
    /\ all_movie_entries_master_list[2] = EntryB
    /\ storage = File(DumpAll(all_movie_entries_master_list))
    /\ snapshot = storage.docs

RelationshipsOfRoster(doc) ==
    LET names == {doc["character_list"][i].name :
                     i \in 1..Len(doc["character_list"])}
        rels == doc["relationships"]
    IN  /\ \A i \in 1..Len(rels) :
              /\ rels[i].source \in names
              /\ rels[i].target \in names
              /\ rels[i].source # rels[i].target
        /\ \A i, j \in 1..Len(rels) :
              i # j => {rels[i].source, rels[i].target}
                          # {rels[j].source, rels[j].target}

\* C9, as claimed: in every record written to storage each relationship's
\* source and target are names of that record's character_list, no
\* relationship has its source as its target, and no character pair carries
\* two relationships.
C9_AsClaimed ==
    \A i \in 1..Len(storage.docs) : RelationshipsOfRoster(storage.docs[i])

(***************************************************************************)
(* Self-relationships.                                                     *)
(***************************************************************************)
\* C11: for a roster with at least one non-empty name, no returned edge has
\* its source as its target, and a raw edge whose source and target match,
\* by name or alias and case-insensitively, one and the same character is
\* not in the returned list, directed or not; with the roster {A, aliases
\* [j]} the edge J -> "a " gives the empty list.
C11_SelfEdgesDropped ==
    (d_pc = "done" /\ CanonicalNames(d_roster) # {}) =>
        /\ \A k \in 1..Len(d_out) : d_out[k].source # d_out[k].target
        /\ \A i \in 1..Len(d_raw) :
              LET cs == CanonOf(d_roster, d_raw[i].source)
                  ct == CanonOf(d_roster, d_raw[i].target)
              IN  (cs = ct /\ Cardinality(cs) = 1) =>
                      \A k \in 1..Len(d_out) : d_out[k].description # i
        /\ (/\ d_roster = <<charA>> /\ Len(d_raw) = 1
            /\ d_raw[1].source = <<"J">> /\ d_raw[1].target = <<"a", " ">>) =>
              d_out = <<>>

C11_Witness ==
    /\ d_pc = "done"
    /\ d_roster = <<charA, charB>>
    /\ Len(d_raw) = 2
    /\ d_raw[1].source = <<"J">> /\ d_raw[1].target = <<"a", " ">>
    /\ d_raw[1].directed
    /\ d_raw[2].source = <<"a", " ">> /\ d_raw[2].target = <<"J">>
    /\ ~d_raw[2].directed
    /\ d_out = <<>>

(***************************************************************************)
(* One call of fetch_master_imdb_id (main_orchestrator.py lines 74-140).   *)
(***************************************************************************)
\* what the providers answer: the external-ids document may carry an
\* identifier of another kind, OMDB may send a number
MasterIdWorlds ==
    [details : {<<>>, <<TT1>>, <<StrVal(<<"n", "m">>)>>},
     omdb_year : {<<>>, <<TT2>>, <<Num7>>},
     omdb_title : {<<>>, <<TT2>>},
     search_year : {<<>>, <<7>>},
     search_title : {<<>>, <<7>>}]

\* title_or_tmdb_id
MasterIdArgs ==
    {IntArg(1), IntArg(0), StrArg(<<"A">>), StrArg(<<"1", "2">>), StrArg(<<>>)}

\* year_hint: None, "", "2024", "99", "20245", "abcd", " 2024" and a year
\* written with a digit outside ASCII
YearHints ==
    { <<>>, << <<>> >>, << <<"2", "0", "2", "4">> >>, << <<"9", "9">> >>,
      << <<"2", "0", "2", "4", "5">> >>, << <<"a", "b", "c", "d">> >>,
      << <<" ", "2", "0", "2", "4">> >>, << <<"²", "0", "2", "4">> >> }

MasterIdInit ==
    /\ f_pc = "call"
    /\ f_args \in [world : MasterIdWorlds,
                   keys : [tmdb : BOOLEAN, omdb : BOOLEAN],
                   title_or_tmdb_id : MasterIdArgs,
                   year_hint : YearHints,
                   is_tmdb_id : BOOLEAN]
    /\ f_out = <<>>
    /\ cfg = Config({}, {})
    /\ pc = "idle"
    /\ IdleRun(<<>>)
    /\ IdlePass
    /\ IdleNormalizer

MasterIdCall ==
    /\ f_pc = "call"
    /\ f_out' = fetch_master_imdb_id(f_args.world, f_args.keys,
                                     f_args.title_or_tmdb_id,
                                     f_args.year_hint, f_args.is_tmdb_id)
    /\ f_pc' = "done"
    /\ UNCHANGED <<f_args, d_pc, d_roster, d_raw, d_out, cfg, passvars, runvars>>

SpecMasterId == MasterIdInit /\ [][MasterIdCall]_vars

(***************************************************************************)
(* Properties of identity resolution.                                      *)
(***************************************************************************)
MasterIdOrder ==
    <<"tmdb_details", "omdb_year", "tmdb_search_year", "omdb_title",
      "tmdb_search_title">>

StepPosition(name) == CHOOSE i \in 1..5 : MasterIdOrder[i] = name

\* the identifier of the external-ids document, when it is an IMDb one
DetailsAnswer ==
    LET d == f_args.world.details
    IN  IF d # <<>> /\ d[1].t = "str" /\ SubSeq(d[1].v, 1, 2) = <<"t", "t">>
          THEN d ELSE <<>>

\* what the providers of a step answer in this call
StepAnswer(name) ==
    CASE name = "tmdb_details" -> DetailsAnswer
      [] name = "omdb_year" -> f_args.world.omdb_year
      [] name = "tmdb_search_year" ->
            IF f_args.world.search_year = <<>> THEN <<>> ELSE DetailsAnswer
      [] name = "omdb_title" -> f_args.world.omdb_title
      [] name = "tmdb_search_title" ->
            IF f_args.world.search_title = <<>> THEN <<>> ELSE DetailsAnswer

\* the call is by structured id
ByStructuredId ==
    /\ f_args.is_tmdb_id
    /\ \/ f_args.title_or_tmdb_id.t = "int" /\ f_args.title_or_tmdb_id.n # 0
       \/ /\ f_args.title_or_tmdb_id.t = "str"
          /\ f_args.title_or_tmdb_id.s # <<>>
          /\ \A i \in 1..Len(f_args.title_or_tmdb_id.s) :
                IsDigitChar(f_args.title_or_tmdb_id.s[i])

\* the call is by title
ByTitle ==
    /\ ~ByStructuredId
    /\ f_args.title_or_tmdb_id.t = "str" => f_args.title_or_tmdb_id.s # <<>>

\* the year the function hands to the providers, <<>> when it hands none
YearInUse ==
    IF f_args.year_hint # <<>> /\ f_args.year_hint[1] # <<>>
         /\ Len(Strip(f_args.year_hint[1])) = 4
         /\ IsDigit(Strip(f_args.year_hint[1]))
      THEN <<Strip(f_args.year_hint[1])>> ELSE <<>>

\* the steps the arguments and the keys allow
ApplicableSteps ==
    {name \in {"tmdb_details"} : ByStructuredId /\ f_args.keys.tmdb}
    \cup {name \in {"omdb_year"} :
             ByTitle /\ YearInUse # <<>> /\ f_args.keys.omdb}
    \cup {name \in {"tmdb_search_year"} :
             ByTitle /\ YearInUse # <<>> /\ f_args.keys.tmdb}
    \cup {name \in {"omdb_title"} : ByTitle /\ f_args.keys.omdb}
    \cup {name \in {"tmdb_search_title"} : ByTitle /\ f_args.keys.tmdb}

\* C12: the steps of fetch_master_imdb_id are taken in the order detail by
\* structured id, OMDB by title and year, TMDB search-then-detail by title
\* and year, OMDB by title, TMDB search-then-detail by title; only
\* applicable steps are taken, every step before the last one taken
\* answered nothing, the identifier returned is the answer of the last step
\* taken, and null is returned only after every applicable step was taken.
C12_FirstSuccessEndsChain ==
    f_pc = "done" =>
        LET calls == f_out.calls
        IN  /\ \A i \in 1..Len(calls) : calls[i] \in ApplicableSteps
            /\ \A i, j \in 1..Len(calls) :
                  i < j => StepPosition(calls[i]) < StepPosition(calls[j])
            /\ \A i \in 1..(Len(calls) - 1) : StepAnswer(calls[i]) = <<>>
            /\ f_out.id = IF calls = <<>> THEN <<>>
                          ELSE StepAnswer(calls[Len(calls)])
            /\ f_out.id = <<>> =>
                  \A name \in ApplicableSteps :
                      \E i \in 1..Len(calls) : calls[i] = name

\* the third step answers after the second failed, and the two title-only
\* steps are never reached
C12_Witness ==
    /\ f_pc = "done"
    /\ f_args.keys = [tmdb |-> TRUE, omdb |-> TRUE]
    /\ f_args.world.omdb_title = <<TT2>>
    /\ f_args.world.search_title = <<7>>
    /\ f_out.calls = <<"omdb_year", "tmdb_search_year">>
    /\ f_out.id = <<TT1>>

YearSteps == {"omdb_year", "tmdb_search_year"}

StepsTaken == {f_out.calls[i] : i \in 1..Len(f_out.calls)}

\* the year hint is a string of exactly four of the digits 0 to 9
FourDigitHint ==
    /\ f_args.year_hint # <<>>
    /\ Len(f_args.year_hint[1]) = 4
    /\ \A i \in 1..4 : IsDigitChar(f_args.year_hint[1][i])

\* None, "", "99", "20245" and "abcd"
RefusedHints ==
    { <<>>, << <<>> >>, << <<"9", "9">> >>, << <<"2", "0", "2", "4", "5">> >>,
      << <<"a", "b", "c", "d">> >> }

\* C13, as claimed: fetch_master_imdb_id takes a title-and-year step only
\* when the year hint is exactly four digits; with the hints "99", "20245",
\* "abcd", "" and None it takes no title-and-year step and still takes the
\* title-only steps, and it always returns.
C13_AsClaimed ==
    f_pc = "done" =>
        /\ StepsTaken \cap YearSteps # {} => FourDigitHint
        /\ f_args.year_hint \in RefusedHints =>
              /\ StepsTaken \cap YearSteps = {}
              /\ (ByTitle /\ f_args.keys.omdb) => "omdb_title" \in StepsTaken
              /\ (ByTitle /\ f_args.keys.tmdb /\ f_out.id = <<>>) =>
                    "tmdb_search_title" \in StepsTaken

(***************************************************************************)
(* A discovery run (operation_mode fetch_and_add_new, lines 541-685) with  *)
(* a page budget of up to MaxFetchPages.                                   *)
(***************************************************************************)
MaxFetchPages == 2

FetchConfigs ==
    {[Config({"fetch_imdb_ids"}, {}) EXCEPT
         !.update_existing_if_encountered_during_fetch = u,
         !.num_new_movies_to_fetch_this_session = n,
         !.max_tmdb_top_rated_pages_to_check = m] :
       u \in BOOLEAN, n \in 0..MaxNew, m \in 1..MaxFetchPages}

FetchInit ==
    /\ cfg \in FetchConfigs
    /\ IdleRun(<<EntryA, EntryB>>)
    /\ pc = "page_loop"
    /\ IdlePass
    /\ IdleDedup

\* the steps of the loop of lines 547-685 and of save_movies_to_yaml
LoopStep ==
    \/ EndFetch
    \/ FetchPage
    \/ SkipCandidate
    \/ UpdateEncountered
    \/ NewCandidate
    \/ CommitCandidate
    \/ RejectCandidate
    \/ EndOfPage
    \/ WriteDocument
    \/ SaveReturns

\* the steps of the program itself
FetchStep == LoopStep \/ PassStep

NextFetch == FetchStep \/ Kill

SpecFetch == FetchInit /\ [][NextFetch]_vars

\* the identifier stage of a pass has been entered and has not returned
ImdbPending == pc \in {"pass", "call"} /\ p_pc = "fetch_imdb_ids"

\* Every call of the program returns (the requests carry a timeout), so a
\* program that is not killed takes its next step.  RunImdb is enabled
\* exactly while ImdbPending holds and every RunImdb step ends it, so weak
\* fairness of RunImdb is the last conjunct.
FairSpecFetch ==
    /\ SpecFetch
    /\ WF_vars(LoopStep)
    /\ WF_vars(RunInitialData)
    /\ WF_vars(RunCharacters)
    /\ WF_vars(RunAnalytical)
    /\ WF_vars(RunReviewSummary)
    /\ WF_vars(Finalize)
    /\ []<>(~ImdbPending)

(***************************************************************************)
(* Properties of the page loop.                                            *)
(***************************************************************************)
Halted == pc \in {"finished", "raised", "killed"}

PageBudgetSpent == current_tmdb_page > cfg.max_tmdb_top_rated_pages_to_check

\* C14: a discovery run halts.  At the head of the loop a reached quota
\* (refreshing disabled) or a page counter beyond
\* max_tmdb_top_rated_pages_to_check ends the loop; at the end of a page a
\* reached quota or a page counter beyond the listing's total_pages ends
\* it; the page counter changes only by one upwards, and every iteration
\* that goes back to the head of the loop has raised it.
C14_PageLoopTerminates ==
    /\ <>Halted
    /\ [][ /\ (pc = "page_loop" /\ (QuotaReached \/ PageBudgetSpent)
                 /\ pc' # "killed") => pc' = "finished"
           /\ (pc = "page_candidates" /\ movies_on_this_page_raw = <<>>
                 /\ (QuotaReached \/ current_tmdb_page + 1 > total_tmdb_pages)
                 /\ pc' # "killed") => pc' = "finished"
           /\ current_tmdb_page' # current_tmdb_page =>
                 current_tmdb_page' = current_tmdb_page + 1
           /\ (pc \in {"page_loop", "page_candidates"} /\ pc' = "page_loop") =>
                 current_tmdb_page' = current_tmdb_page + 1
         ]_vars

\* the loop went through two pages and stopped on its page budget
C14_Witness ==
    /\ pc = "finished"
    /\ cfg.max_tmdb_top_rated_pages_to_check = 2
    /\ current_tmdb_page = 3
    /\ ~QuotaReached
    /\ saves > 0

(***************************************************************************)
(* What ends a discovery run.                                              *)
(***************************************************************************)
\* the listing has no further page: the last page request was answered, and
\* either the answer had no results on the last page it reports (line 561)
\* or the page counter passed total_pages (line 684)
ListingExhausted ==
    /\ tmdb_page_data_raw # <<>>
    /\ IF tmdb_page_data_raw[1].results = <<>>
         THEN /\ tmdb_page_data_raw[1].total_pages # <<>>
              /\ current_tmdb_page >= tmdb_page_data_raw[1].total_pages[1]
         ELSE current_tmdb_page > total_tmdb_pages

\* C15 as stated: a discovery run that was not killed has halted only with
\* the new-movie quota reached, the page budget spent or the listing
\* exhausted; no failure of one call or of one movie ends it earlier.
C15_AsClaimed ==
    pc \in {"finished", "raised"}
        => QuotaReached \/ PageBudgetSpent \/ ListingExhausted

(***************************************************************************)
(* Startup: run_enrichment_pipeline from line 145 to line 225.             *)
(***************************************************************************)
\* `sub in text`
Contains(text, sub) ==
    \E i \in 1..(Len(text) - Len(sub) + 1) :
        SubSeq(text, i, i + Len(sub) - 1) = sub

\* the literal of line 180
OpenaiTag == <<"o", "p", "e", "n", "a", "i", "_">>

\* the values of active_llm_provider_id: "openai_1", "lm" and ""
ProviderIds ==
    { <<"o", "p", "e", "n", "a", "i", "_", "1">>, <<"l", "m">>, <<>> }

\* the five templates of lines 221-225
PromptNames ==
    {"call1_initial_data", "call2_chars_rels", "call3_analytical",
     "call4_tmdb_review_summary", "call_constrained_plot_relations"}

\* What startup reads: the environment, main_config.yaml,
\* llm_providers_config.yaml and the prompt directory.  listed: the active
\* id is a key of the providers; model_id, base_url: the provider has the
\* entry; client_ok: openai.OpenAI(...) does not raise; missing_prompts: the
\* templates whose file does not exist.
StartupEnvs ==
    [tmdb_api_key : BOOLEAN,
     active_llm_provider_id : {<<>>} \cup {<<id>> : id \in ProviderIds},
     listed : BOOLEAN,
     model_id : BOOLEAN,
     base_url : BOOLEAN,
     type : {"openai_compatible", "other"},
     client_ok : BOOLEAN,
     missing_prompts : {{}, {"call3_analytical"}, PromptNames}]

\* lines 150-153
ProviderResolved(env) ==
    /\ env.active_llm_provider_id # <<>>
    /\ env.active_llm_provider_id[1] # <<>>
    /\ env.listed

\* lines 178-197
ClientInitialized(env) ==
    /\ env.type = "openai_compatible"
    /\ \/ env.base_url
       \/ Contains(env.active_llm_provider_id[1], OpenaiTag)
    /\ env.client_ok

\* a startup that does not load the prompt templates
StartupPassesWithoutPrompts(env) ==
    /\ ProviderResolved(env)
    /\ env.tmdb_api_key
    /\ env.model_id
    /\ ClientInitialized(env)

\* lines 150-225 reach line 227: no return and no exit(1) on the way
StartupPasses(env) ==
    /\ ProviderResolved(env)
    /\ env.tmdb_api_key
    /\ env.model_id
    /\ ClientInitialized(env)
    /\ env.missing_prompts = {}

\* lines 145-225 in a discovery run
Startup ==
    /\ pc = "startup"
    /\ pc' = IF StartupPasses(f_args) THEN "page_loop" ELSE "aborted"
    /\ UNCHANGED <<cfg, passvars, dvars, all_movie_entries_master_list,
                   processed_movie_titles_lower_set,
                   new_movies_added_this_session, storage, to_write, saves,
                   snapshot, current_tmdb_page, total_tmdb_pages,
                   tmdb_page_data_raw, movies_on_this_page_raw,
                   movies_to_target_for_session>>

StartupInit ==
    /\ cfg \in FetchConfigs
    /\ IdleRun(<<EntryA, EntryB>>)
    /\ pc = "startup"
    /\ IdlePass
    /\ IdleNormalizer
    /\ f_pc = "idle"
    /\ f_args \in StartupEnvs
    /\ f_out = <<>>

NextStartup == Startup \/ NextFetch

SpecStartup == StartupInit /\ [][NextStartup]_vars

\* no candidate was enriched, no listing page was requested and the storage
\* file was not opened for writing
NothingDone ==
    /\ pc \in {"startup", "aborted"}
    /\ p_pc = "idle" /\ p_calls = {}
    /\ tmdb_page_data_raw = <<>> /\ current_tmdb_page = 1
    /\ saves = 0 /\ to_write = <<>>
    /\ storage = File(DumpAll(all_movie_entries_master_list))

\* the credential, the provider, its model id or a prompt template is missing
CredentialProviderModelOrPromptMissing(env) ==
    \/ ~env.tmdb_api_key
    \/ ~ProviderResolved(env)
    \/ ~env.model_id
    \/ env.missing_prompts # {}

\* C16 as stated: with the provider key, the active provider, its model id,
\* its base URL or a prompt template missing, nothing is done.
C16_AsClaimed ==
    (CredentialProviderModelOrPromptMissing(f_args) \/ ~f_args.base_url)
        => NothingDone

\* C16: with the provider key, the active provider, its model id or a prompt
\* template missing, or with the base URL missing for a provider whose id
\* does not contain "openai_", the run aborts before any candidate is
\* enriched, any listing page is requested or the storage file is written.
C16_MissingAborts ==
    (\/ CredentialProviderModelOrPromptMissing(f_args)
     \/ /\ ~f_args.base_url
        /\ f_args.active_llm_provider_id # <<>>
        /\ ~Contains(f_args.active_llm_provider_id[1], OpenaiTag))
        => NothingDone

\* a run aborted only because a prompt template is missing
C16_Witness ==
    /\ pc = "aborted"
    /\ StartupPassesWithoutPrompts(f_args)
    /\ f_args.missing_prompts = {"call3_analytical"}
    /\ NothingDone

(***************************************************************************)
(* The analytical stage when the response is not usable.                   *)
(***************************************************************************)
\* the stages of a pass after the analytical stage
AfterAnalytical == {"tmdb_review_summary", "fetch_imdb_ids", "finalize", "returned"}

\* a pass over an existing record under full refresh whose analytical
\* enricher was called and returned None
AnalyticalFailedOnRefresh ==
    /\ pc = "call"
    /\ ~p_new
    /\ cfg.fields_to_update = {}
    /\ "analytical_data" \in cfg.active_enrichers
    /\ p_pc \in AfterAnalytical
    /\ "analytical_data" \in p_calls
    /\ p_ret.analytical_data = <<>>

OneFieldMalformed ==
    {r \in Llm3Responses :
        /\ r # <<>>
        /\ Cardinality({f \in AnalyticalKeys : ~r[1][f].ok}) = 1}

\* C18 as stated: when the analytical enricher of a new movie gets a
\* response with one malformed field, that field is null and the
\* well-formed fields of the response are merged into the working record.
C18_AsClaimed ==
    [][\A r \in OneFieldMalformed :
          (/\ p_pc = "analytical_data"
           /\ p_new
           /\ "analytical_data" \in cfg.active_enrichers
           /\ working' = AnalyticalStage(working, cfg, p_new, r).w)
          => \A f \in AnalyticalKeys \ {"recommendations"} :
                working'[f] = IF r[1][f].ok /\ r[1][f].shape # "null"
                                THEN <<r[1][f].v>> ELSE <<>>]_vars

(***************************************************************************)
(* data_providers/llm_clients.py: strip_code_fences (lines 8-57) and       *)
(* parse_llm_output_to_dict (lines 60-104) on texts written as sequences   *)
(* of characters.                                                          *)
(***************************************************************************)
\* the character of a code fence, U+0060, for which the acute accent stands
\* in the strings of this module
Backtick == "´"

Fence == <<Backtick, Backtick, Backtick>>

\* [a-zA-Z0-9\-_]
TagChars ==
    {UpperLetters[i] : i \in 1..26} \cup {LowerLetters[i] : i \in 1..26}
    \cup {DigitChars[i] : i \in 1..10} \cup {"-", "_"}

StartsWith(text, prefix) ==
    Len(text) >= Len(prefix) /\ SubSeq(text, 1, Len(prefix)) = prefix

EndsWith(text, suffix) ==
    /\ Len(text) >= Len(suffix)
    /\ SubSeq(text, Len(text) - Len(suffix) + 1, Len(text)) = suffix

\* text[n:]
DropFirst(text, n) == SubSeq(text, n + 1, Len(text))

\* text.find(ch) + 1: the first position of ch, 0 when there is none
Find(text, ch) ==
    IF \E i \in 1..Len(text) : text[i] = ch
      THEN CHOOSE i \in 1..Len(text) :
              text[i] = ch /\ \A j \in 1..(i - 1) : text[j] # ch
      ELSE 0

\* what is left after the longest prefix of language-tag characters
RECURSIVE DropTag(_)
DropTag(text) ==
    IF text # <<>> /\ Head(text) \in TagChars THEN DropTag(Tail(text)) ELSE text

\* line 28: re.match(r"^\s*FENCE(?:[a-zA-Z0-9\-_]+)?\s*(.*?)\s*FENCE\s*$",
\* text, re.DOTALL), FENCE written for the three characters: an opening
\* fence, and a closing fence that is not the opening one with nothing but
\* whitespace after it
FenceMatches(text) ==
    LET m == Strip(text)
    IN  Len(m) >= 6 /\ StartsWith(m, Fence) /\ EndsWith(m, Fence)

\* A group 1 that keeps the language tag
FenceGroupWithTag(text) ==
    LET m == Strip(text)
    IN  Strip(SubSeq(m, 4, Len(m) - 3))

\* fence_match.group(1): the tag is the longest run of tag characters after
\* the opening fence, the lazy group ends before the whitespace that
\* precedes the last fence
FenceGroup(text) ==
    LET m == Strip(text)
    IN  Strip(DropTag(SubSeq(m, 4, Len(m) - 3)))

\* lines 34-43: the opening fence is cut, and the first line with it when
\* it is a language specifier
OpeningFenceCut(text) ==
    LET rest == DropFirst(text, 3)
        first_line_end == Find(rest, "\n")
        first_line == Strip(SubSeq(rest, 1, first_line_end - 1))
    IN  IF /\ first_line_end # 0
           /\ first_line # <<>>
           /\ \A i \in 1..Len(first_line) : first_line[i] \in TagChars
           /\ Len(first_line) < 10
          THEN Strip(DropFirst(rest, first_line_end))
          ELSE Strip(rest)

\* lines 51-54
LanguagePrefixCut(text) ==
    IF \/ StartsWith(Lower(text), <<"j", "s", "o", "n", "\n">>)
       \/ StartsWith(Lower(text), <<"y", "a", "m", "l", "\n">>)
      THEN Strip(DropFirst(text, Find(text, "\n")))
    ELSE IF \/ StartsWith(Lower(text), <<"j", "s", "o", "n", " ">>)
            \/ StartsWith(Lower(text), <<"y", "a", "m", "l", " ">>)
      THEN Strip(DropFirst(text, 5))
    ELSE text

\* lines 22-56: one iteration of the while loop
StripIteration(text) ==
    IF FenceMatches(text) THEN Strip(FenceGroup(text))
    ELSE
      LET t1 == IF StartsWith(text, Fence) THEN OpeningFenceCut(text) ELSE text
          t2 == IF EndsWith(t1, Fence)
                  THEN Strip(SubSeq(t1, 1, Len(t1) - 3)) ELSE t1
      IN  Strip(LanguagePrefixCut(t2))

\* lines 21-57: the loop runs until an iteration changes nothing
RECURSIVE StripLoop(_)
StripLoop(text) ==
    LET next_text == StripIteration(text)
    IN  IF next_text = text THEN text ELSE StripLoop(next_text)

\* lines 8-57
strip_code_fences(raw_text) ==
    IF raw_text = <<>> THEN <<>> ELSE StripLoop(Strip(raw_text))

\* the texts an LLM answers with, before any fence is put around them
Payloads ==
    { \* a JSON object
      <<"{", "\"", "a", "\"", ":", "1", "}">>,
      \* a JSON object with a list
      <<"{", "\"", "a", "\"", ":", " ", "[", "1", ",", " ", "\"", "b", "\"", "]", "}">>,
      \* the empty JSON object
      <<"{", "}">>,
      \* a JSON list
      <<"[", "1", "]">>,
      \* a JSON number
      <<"1", "2">>,
      \* a JSON string
      <<"\"", "a", "\"">>,
      \* the JSON null
      <<"n", "u", "l", "l">>,
      \* a YAML mapping that is not JSON
      <<"a", ":", " ", "1">>,
      \* a YAML mapping of two lines
      <<"a", ":", " ", "1", "\n", "b", ":", " ", "x">>,
      \* a YAML flow mapping that is not JSON
      <<"{", "a", ":", " ", "1", "}">>,
      \* a YAML list
      <<"-", " ", "a">>,
      \* a YAML scalar
      <<"a", "b">>,
      \* a truncated object
      <<"{", "\"", "a", "\"", ":">>,
      \* a line YAML rejects
      <<"a", ":", " ", "b", ":", " ", "c">>,
      \* a text YAML rejects
      <<Backtick, "a", Backtick>>,
      \* the empty text
      <<>>,
      \* an object between whitespace
      <<" ", "{", "\"", "a", "\"", ":", "1", "}", "\n">>,
      \* a language line before the object
      <<"J", "S", "O", "N", "\n", "{", "\"", "a", "\"", ":", "1", "}">>,
      \* a language word before the mapping
      <<"y", "a", "m", "l", " ", "a", ":", " ", "1">>,
      \* a closing fence only
      <<"{", "\"", "a", "\"", ":", "1", "}", "\n", Backtick, Backtick, Backtick>>,
      \* an opening fence only
      <<Backtick, Backtick, Backtick, "j", "s", "o", "n", "\n", "{", "\"", "a", "\"", ":", "1", "}">>,
      \* two language lines
      <<"j", "s", "o", "n", "\n", "y", "a", "m", "l", "\n", "a", ":", " ", "1">> }

(***************************************************************************)
(* json.loads and yaml.safe_load on the texts above.  A parsed value is    *)
(* [t, s, items]: t is "dict", "list", "str", "num", "bool" or "null", s   *)
(* the characters of a scalar, items the elements of a list or the pairs   *)
(* (t = "pair", s the key, items the one value) of a dict.  Both parsers   *)
(* cover the grammar the texts are written in: objects, lists, double-     *)
(* quoted strings without escapes, unsigned integers and null for JSON;    *)
(* for YAML also plain scalars, flow collections with plain scalars, and   *)
(* block mappings and block sequences of one level.                        *)
(***************************************************************************)
Value(t, s, items) == [t |-> t, s |-> s, items |-> items]

NoValue == Value("none", <<>>, <<>>)

\* what one step of a parser returns: the value and the position after it
Failed == [ok |-> FALSE, v |-> NoValue, next |-> 0]

\* the nesting the interpreter allows a parser before it raises
\* RecursionError (sys.getrecursionlimit() is 1000)
RecursionLimit == 3

\* the step raised RecursionError
TooDeep == [ok |-> FALSE, v |-> Value("RecursionError", <<>>, <<>>), next |-> 0]

Parsed(v, next) == [ok |-> TRUE, v |-> v, next |-> next]

RECURSIVE SkipWhitespace(_, _)
SkipWhitespace(text, i) ==
    IF i <= Len(text) /\ text[i] \in Whitespace
      THEN SkipWhitespace(text, i + 1) ELSE i

\* the position after the run of characters of S that starts at i
RECURSIVE RunEnd(_, _, _)
RunEnd(text, i, S) ==
    IF i <= Len(text) /\ text[i] \in S THEN RunEnd(text, i + 1, S) ELSE i

\* a double-quoted string at i; a line break inside it is an error
QuotedString(text, i) ==
    LET close == Find(DropFirst(text, i), "\"")
        body == SubSeq(text, i + 1, i + close - 1)
    IN  IF close = 0 \/ \E k \in 1..Len(body) : body[k] = "\n"
          THEN Failed
          ELSE Parsed(Value("str", body, <<>>), i + close + 1)

\* an unsigned integer at i; after a leading zero the number ends
JsonNumber(text, i) ==
    IF text[i] = "0" THEN Parsed(Value("num", <<"0">>, <<>>), i + 1)
    ELSE LET e == RunEnd(text, i, {DigitChars[k] : k \in 1..10})
         IN  Parsed(Value("num", SubSeq(text, i, e - 1), <<>>), e)

RECURSIVE JsonValue(_, _, _)
RECURSIVE JsonMembers(_, _, _, _)
RECURSIVE JsonElements(_, _, _, _)

\* the value that starts at i, depth - 1 collections around it
JsonValue(text, i, depth) ==
    IF i > Len(text) THEN Failed
    ELSE IF text[i] \in {"{", "["} /\ depth > RecursionLimit THEN TooDeep
    ELSE IF text[i] = "{"
      THEN LET k == SkipWhitespace(text, i + 1)
           IN  IF k <= Len(text) /\ text[k] = "}"
                 THEN Parsed(Value("dict", <<>>, <<>>), k + 1)
                 ELSE JsonMembers(text, k, <<>>, depth)
    ELSE IF text[i] = "["
      THEN LET k == SkipWhitespace(text, i + 1)
           IN  IF k <= Len(text) /\ text[k] = "]"
                 THEN Parsed(Value("list", <<>>, <<>>), k + 1)
                 ELSE JsonElements(text, k, <<>>, depth)
    ELSE IF text[i] = "\"" THEN QuotedString(text, i)
    ELSE IF IsDigitChar(text[i]) THEN JsonNumber(text, i)
    ELSE IF StartsWith(DropFirst(text, i - 1), <<"n", "u", "l", "l">>)
      THEN Parsed(Value("null", <<>>, <<>>), i + 4)
    ELSE Failed

\* "key": value pairs up to the closing brace, after the pairs of acc
JsonMembers(text, i, acc, depth) ==
    IF i > Len(text) \/ text[i] # "\"" THEN Failed
    ELSE
      LET key == QuotedString(text, i)
          colon == SkipWhitespace(text, key.next)
      IN  IF ~key.ok \/ colon > Len(text) \/ text[colon] # ":" THEN Failed
          ELSE
            LET val == JsonValue(text, SkipWhitespace(text, colon + 1), depth + 1)
                after == SkipWhitespace(text, val.next)
                pairs == Append(acc, Value("pair", key.v.s, <<val.v>>))
            IN  IF ~val.ok THEN val
                ELSE IF after > Len(text) THEN Failed
                ELSE IF text[after] = "}"
                  THEN Parsed(Value("dict", <<>>, pairs), after + 1)
                ELSE IF text[after] = ","
                  THEN JsonMembers(text, SkipWhitespace(text, after + 1), pairs,
                                   depth)
                ELSE Failed

\* values up to the closing bracket, after the values of acc
JsonElements(text, i, acc, depth) ==
    LET val == JsonValue(text, i, depth + 1)
        after == SkipWhitespace(text, val.next)
        elements == Append(acc, val.v)
    IN  IF ~val.ok THEN val
        ELSE IF after > Len(text) THEN Failed
        ELSE IF text[after] = "]"
          THEN Parsed(Value("list", <<>>, elements), after + 1)
        ELSE IF text[after] = ","
          THEN JsonElements(text, SkipWhitespace(text, after + 1), elements,
                            depth)
        ELSE Failed

\* json.loads(text): the whole text has to be one value between whitespace.
\* ok is FALSE with v = NoValue for a JSONDecodeError, and FALSE with the
\* value of TooDeep for the RecursionError of a nesting beyond the limit
json_loads(text) ==
    LET r == JsonValue(text, SkipWhitespace(text, 1), 1)
    IN  IF r.ok /\ SkipWhitespace(text, r.next) > Len(text)
          THEN [ok |-> TRUE, v |-> r.v]
        ELSE IF ~r.ok /\ r.v = TooDeep.v THEN [ok |-> FALSE, v |-> TooDeep.v]
        ELSE [ok |-> FALSE, v |-> NoValue]

\* the implicit type of a YAML plain scalar
ResolvePlain(scalar) ==
    IF scalar = <<>> \/ scalar = <<"n", "u", "l", "l">> \/ scalar = <<"~">>
      THEN Value("null", <<>>, <<>>)
    ELSE IF \A k \in 1..Len(scalar) : IsDigitChar(scalar[k])
      THEN Value("num", scalar, <<>>)
    ELSE IF scalar \in {<<"n", "o">>, <<"o", "n">>, <<"o", "f", "f">>,
                        <<"y", "e", "s">>, <<"t", "r", "u", "e">>,
                        <<"f", "a", "l", "s", "e">>}
      THEN Value("bool", scalar, <<>>)
    ELSE Value("str", scalar, <<>>)

RECURSIVE YamlFlow(_, _)
RECURSIVE YamlFlowMembers(_, _, _)
RECURSIVE YamlFlowElements(_, _, _)

\* a scalar inside a flow collection: quoted, or a run of plain characters
YamlFlowScalar(text, i) ==
    IF i > Len(text) THEN Failed
    ELSE IF text[i] = "\"" THEN QuotedString(text, i)
    ELSE LET e == RunEnd(text, i, TagChars)
         IN  IF e = i THEN Failed
             ELSE Parsed(ResolvePlain(SubSeq(text, i, e - 1)), e)

\* the flow node that starts at i
YamlFlow(text, i) ==
    IF i > Len(text) THEN Failed
    ELSE IF text[i] = "{"
      THEN LET k == SkipWhitespace(text, i + 1)
           IN  IF k <= Len(text) /\ text[k] = "}"
                 THEN Parsed(Value("dict", <<>>, <<>>), k + 1)
                 ELSE YamlFlowMembers(text, k, <<>>)
    ELSE IF text[i] = "["
      THEN LET k == SkipWhitespace(text, i + 1)
           IN  IF k <= Len(text) /\ text[k] = "]"
                 THEN Parsed(Value("list", <<>>, <<>>), k + 1)
                 ELSE YamlFlowElements(text, k, <<>>)
    ELSE YamlFlowScalar(text, i)

\* the pair whose key has been read at i, and the pairs after it
YamlFlowPair(text, i, acc, key) ==
    LET colon == SkipWhitespace(text, key.next)
        has_value == colon <= Len(text) /\ text[colon] = ":"
        quoted == text[i] = "\""
        spaced == colon + 1 <= Len(text) /\ text[colon + 1] \in Whitespace
        val == IF has_value
                 THEN YamlFlow(text, SkipWhitespace(text, colon + 1))
                 ELSE Parsed(Value("null", <<>>, <<>>), colon)
        after == SkipWhitespace(text, val.next)
        pairs == Append(acc, Value("pair", key.v.s, <<val.v>>))
    IN  IF ~key.ok THEN Failed
        ELSE IF has_value /\ ~quoted /\ ~spaced THEN Failed
        ELSE IF ~val.ok \/ after > Len(text) THEN Failed
        ELSE IF text[after] = "}"
          THEN Parsed(Value("dict", <<>>, pairs), after + 1)
        ELSE IF text[after] = ","
          THEN YamlFlowMembers(text, SkipWhitespace(text, after + 1), pairs)
        ELSE Failed

\* key: value pairs up to the closing brace; a quoted key may be followed
\* by its value directly, a plain key needs whitespace after the colon, and
\* a key without a colon has the value null
YamlFlowMembers(text, i, acc) ==
    YamlFlowPair(text, i, acc, YamlFlowScalar(text, i))

YamlFlowElements(text, i, acc) ==
    LET val == YamlFlow(text, i)
        after == SkipWhitespace(text, val.next)
        elements == Append(acc, val.v)
    IN  IF ~val.ok \/ after > Len(text) THEN Failed
        ELSE IF text[after] = "]"
          THEN Parsed(Value("list", <<>>, elements), after + 1)
        ELSE IF text[after] = ","
          THEN YamlFlowElements(text, SkipWhitespace(text, after + 1), elements)
        ELSE Failed

\* text.split("\n")
RECURSIVE Lines(_)
Lines(text) ==
    LET nl == Find(text, "\n")
    IN  IF nl = 0 THEN <<text>>
        ELSE <<SubSeq(text, 1, nl - 1)>> \o Lines(DropFirst(text, nl))

\* the position of the first ": " of the line, or of a ":" that ends the
\* line; 0 when there is none
KeyEnd(line) ==
    LET marks == {i \in 1..Len(line) :
                    /\ line[i] = ":"
                    /\ (i = Len(line) \/ line[i + 1] \in Whitespace)}
    IN  IF marks = {} THEN 0 ELSE CHOOSE i \in marks : \A j \in marks : i <= j

\* the characters no plain scalar starts with
Indicators == {Backtick, "@", "%", ",", "[", "]", "{", "}", "\"", ":", "-"}

\* the node flow has to end where the text t ends
WholeText(flow, t) ==
    IF flow.ok /\ flow.next > Len(t)
      THEN [ok |-> TRUE, v |-> flow.v]
      ELSE [ok |-> FALSE, v |-> NoValue]

\* the value written after "key: " or "- "
YamlInline(text) ==
    LET t == Strip(text)
    IN  IF t = <<>> THEN [ok |-> TRUE, v |-> Value("null", <<>>, <<>>)]
        ELSE IF t[1] \in {"{", "[", "\""} THEN WholeText(YamlFlow(t, 1), t)
        ELSE IF t[1] \in Indicators \/ KeyEnd(t) # 0
          THEN [ok |-> FALSE, v |-> NoValue]
        ELSE [ok |-> TRUE, v |-> ResolvePlain(t)]

\* a line "key: value" of a block mapping with a plain key
IsMappingLine(line) ==
    /\ KeyEnd(line) > 1
    /\ line[1] \notin Indicators \cup Whitespace

IsSequenceLine(line) ==
    line = <<"-">> \/ StartsWith(line, <<"-", " ">>)

\* yaml.safe_load(text): ok is FALSE for a YAMLError
yaml_safe_load(text) ==
    LET t == Strip(text)
        lines == Lines(t)
        entries == [i \in 1..Len(lines) |->
                      YamlInline(DropFirst(lines[i], KeyEnd(lines[i])))]
        items == [i \in 1..Len(lines) |-> YamlInline(DropFirst(lines[i], 1))]
    IN  IF t = <<>> THEN [ok |-> TRUE, v |-> Value("null", <<>>, <<>>)]
        ELSE IF t[1] \in {"{", "[", "\""} THEN WholeText(YamlFlow(t, 1), t)
        ELSE IF \A i \in 1..Len(lines) : IsMappingLine(lines[i])
          THEN IF \A i \in 1..Len(lines) : entries[i].ok
                 THEN [ok |-> TRUE,
                       v |-> Value("dict", <<>>,
                               [i \in 1..Len(lines) |->
                                  Value("pair",
                                        Strip(SubSeq(lines[i], 1, KeyEnd(lines[i]) - 1)),
                                        <<entries[i].v>>)])]
                 ELSE [ok |-> FALSE, v |-> NoValue]
        ELSE IF \A i \in 1..Len(lines) : IsSequenceLine(lines[i])
          THEN IF \A i \in 1..Len(lines) : items[i].ok
                 THEN [ok |-> TRUE,
                       v |-> Value("list", <<>>,
                               [i \in 1..Len(lines) |-> items[i].v])]
                 ELSE [ok |-> FALSE, v |-> NoValue]
        ELSE IF Len(lines) = 1 /\ t[1] \notin Indicators /\ KeyEnd(t) = 0
          THEN [ok |-> TRUE, v |-> ResolvePlain(t)]
        ELSE [ok |-> FALSE, v |-> NoValue]

\* the outcomes of parse_llm_output_to_dict: a return (the dict, or <<>>
\* for None) or an exception that leaves the function
Returns(value) == [raised |-> FALSE, value |-> value]

Raises == [raised |-> TRUE, value |-> <<>>]

\* lines 86-100: the YAML attempt returns the mapping or None
YamlAttempt(as_yaml) ==
    IF as_yaml.ok /\ as_yaml.v.t = "dict" THEN Returns(<<as_yaml.v>>)
    ELSE Returns(<<>>)

\* lines 74-100: the JSON attempt, then the YAML attempt
ParseAttempts(cleaned_content, as_json) ==
    IF as_json.ok /\ as_json.v.t = "dict" THEN Returns(<<as_json.v>>)
    ELSE IF ~as_json.ok /\ as_json.v # NoValue THEN Raises
    ELSE YamlAttempt(yaml_safe_load(cleaned_content))

\* lines 60-104.  Line 81 catches json.JSONDecodeError only, so another
\* exception of json.loads leaves the function; lines 94-100 catch every
\* exception of the YAML attempt.
ParseCleaned(response_content, cleaned_content) ==
    IF response_content = <<>> \/ cleaned_content = <<>> THEN Returns(<<>>)
    ELSE ParseAttempts(cleaned_content, json_loads(cleaned_content))

parse_llm_output_to_dict(response_content) ==
    ParseCleaned(response_content, strip_code_fences(response_content))

(***************************************************************************)
(* One call of strip_code_fences, iteration by iteration, or one call of   *)
(* parse_llm_output_to_dict, on a text inside zero to MaxLayers layers of  *)
(* code fences.                                                            *)
(***************************************************************************)
MaxLayers == 2

\* the language tags of a fence: none, json, yaml, js
Tags ==
    { <<>>, <<"j", "s", "o", "n">>, <<"y", "a", "m", "l">>, <<"j", "s">> }

\* a fenced block: the opening fence with its tag, the text, the closing
\* fence, each on lines of their own
Fenced(tag, text) == Fence \o tag \o <<"\n">> \o text \o <<"\n">> \o Fence

\* the text inside the layers, the first layer innermost
RECURSIVE Wrap(_, _)
Wrap(text, layers) ==
    IF layers = <<>> THEN text
    ELSE Wrap(Fenced(Head(layers), text), Tail(layers))

\* lists nested one deeper than the interpreter allows
RECURSIVE Nested(_)
Nested(n) == IF n = 0 THEN <<"1">> ELSE <<"[">> \o Nested(n - 1) \o <<"]">>

LlmTexts == Payloads \cup {Nested(RecursionLimit), Nested(RecursionLimit + 1)}

\* raw_text, response_content
raw_text == Wrap(f_args.payload, f_args.layers)

LlmTextInit ==
    /\ f_pc = "call"
    /\ f_args \in [payload : LlmTexts, layers : SeqsUpTo(Tags, MaxLayers)]
    /\ f_out = <<>>
    /\ cfg = Config({}, {})
    /\ pc = "idle"
    /\ IdleRun(<<>>)
    /\ IdlePass
    /\ IdleNormalizer

\* lines 13-20
StripBegin ==
    /\ f_pc = "call"
    /\ f_out' = [text |-> Strip(raw_text), previous_text |-> <<>>]
    /\ f_pc' = IF raw_text = <<>> THEN "done" ELSE "loop"
    /\ UNCHANGED <<f_args, d_pc, d_roster, d_raw, d_out, cfg, passvars, runvars>>

\* lines 21-55: one iteration
StripIterate ==
    /\ f_pc = "loop"
    /\ f_out.text # f_out.previous_text
    /\ f_out' = [text |-> StripIteration(f_out.text),
                 previous_text |-> f_out.text]
    /\ UNCHANGED <<f_pc, f_args, d_pc, d_roster, d_raw, d_out, cfg, passvars,
                   runvars>>

\* lines 21 and 57: the loop ends and text is returned
StripReturn ==
    /\ f_pc = "loop"
    /\ f_out.text = f_out.previous_text
    /\ f_pc' = "done"
    /\ UNCHANGED <<f_out, f_args, d_pc, d_roster, d_raw, d_out, cfg, passvars,
                   runvars>>

\* lines 60-104
ParseCall ==
    /\ f_pc = "call"
    /\ LET outcome == parse_llm_output_to_dict(raw_text)
       IN  /\ f_out' = outcome.value
           /\ f_pc' = IF outcome.raised THEN "raised" ELSE "parsed"
    /\ UNCHANGED <<f_args, d_pc, d_roster, d_raw, d_out, cfg, passvars, runvars>>

NextLlmText == StripBegin \/ StripIterate \/ StripReturn \/ ParseCall

SpecLlmText == LlmTextInit /\ [][NextLlmText]_vars

(***************************************************************************)
(* Properties of the two functions.                                        *)
(***************************************************************************)
\* what the claim has the parse of the text return
ClaimedParse(text) ==
    LET cleaned_content == strip_code_fences(text)
        as_json == json_loads(cleaned_content)
        as_yaml == yaml_safe_load(cleaned_content)
    IN  IF as_json.ok /\ as_json.v.t = "dict" THEN <<as_json.v>>
        ELSE IF as_yaml.ok /\ as_yaml.v.t = "dict" THEN <<as_yaml.v>>
        ELSE <<>>

\* C19 as stated: every call of parse_llm_output_to_dict returns, raising
\* nothing: the JSON mapping when the stripped text parses as JSON to a
\* mapping, otherwise the YAML mapping when it parses as YAML to a mapping,
\* otherwise null.
C19_AsClaimed ==
    f_pc \in {"parsed", "raised"} =>
        f_pc = "parsed" /\ f_out = ClaimedParse(raw_text)

\* C20: strip_code_fences ends at a fixed point (every iteration that does
\* not end the loop makes the text shorter, and the function maps what it
\* returns to itself), and a text inside zero, one or two layers of code
\* fences, tagged or not, gives what the text without the fences gives.
C20_FixedPointIgnoresFences ==
    /\ [](f_pc = "done" =>
            /\ strip_code_fences(f_out.text) = f_out.text
            /\ f_out.text = strip_code_fences(f_args.payload))
    /\ [][StripIterate =>
            \/ Len(f_out'.text) < Len(f_out.text)
            \/ f_out'.text = f_out.text]_vars

\* two tagged layers around a fenced text have been stripped in more than
\* one iteration
C20_Witness ==
    /\ f_pc = "done"
    /\ Len(f_args.layers) = 2
    /\ f_args.layers[1] = <<"j", "s">>
    /\ f_args.payload = <<"{", "\"", "a", "\"", ":", "1", "}">>
    /\ f_out.text = f_args.payload
    /\ f_out.text # Strip(raw_text)

(***************************************************************************)
(* The load of the storage file at startup (lines 210-219 of the           *)
(* orchestrator, load_full_movie_data_from_yaml), followed by the run.     *)
(* f_args holds the documents the file had when the run started.           *)
(***************************************************************************)
\* the nested model r with the default None of its optional field k
WithDefault(r, k) ==
    [x \in DOMAIN r \cup {k} |-> IF x \in DOMAIN r THEN r[x] ELSE <<>>]

\* MovieEntry.model_validate(item_dict) of a document of the file: the
\* fields the document leaves out take their defaults, in the nested models
\* too
model_validate(item_dict) ==
    LET entry == MovieEntry(item_dict)
    IN  [f \in MovieEntryFields |->
            IF f \in RelatedKeys /\ entry[f] # <<>>
              THEN <<WithDefault(entry[f][1], "imdb_id")>>
            ELSE IF f = "recommendations"
              THEN [i \in 1..Len(entry[f]) |-> WithDefault(entry[f][i], "imdb_id")]
            ELSE IF f = "character_list"
              THEN [i \in 1..Len(entry[f]) |-> WithDefault(entry[f][i], "image_file")]
            ELSE entry[f]]

\* lines 211-216: the documents that validate, in file order; the others
\* are skipped with a warning
RECURSIVE LoadValid(_)
LoadValid(raw_data_from_file) ==
    IF raw_data_from_file = <<>> THEN <<>>
    ELSE (IF ValidMovieEntry(Head(raw_data_from_file))
            THEN <<model_validate(Head(raw_data_from_file))>> ELSE <<>>)
         \o LoadValid(Tail(raw_data_from_file))

\* a document of the file without the key of a required field, as a file
\* written by hand or by an earlier version of the models may hold it
StoredC ==
    LET d == model_dump_exclude_none(LoadedEntry(<<"C">>, <<3>>))
    IN  [k \in DOMAIN d \ {"complex_search_queries"} |-> d[k]]

\* what the storage file holds when a run starts
StoredFiles ==
    { DumpAll(<<EntryA, EntryB>>),
      DumpAll(<<EntryNoId, EntryB>>),
      <<model_dump_exclude_none(EntryA), StoredC,
        model_dump_exclude_none(EntryB)>> }

\* lines 210-219: the file is read, its documents are validated and the
\* index of known titles is built
Load ==
    /\ pc = "load"
    /\ LET loaded == LoadValid(storage.docs)
       IN  /\ all_movie_entries_master_list' = loaded
           /\ processed_movie_titles_lower_set' =
                 {NormalizedTitle(loaded[i]["movie_title"]) : i \in 1..Len(loaded)}
    /\ pc' = IF cfg.operation_mode = "fetch_and_add_new"
               THEN "page_loop" ELSE "select_targets"
    /\ UNCHANGED <<cfg, passvars, dvars, new_movies_added_this_session, storage,
                   to_write, saves, snapshot, current_tmdb_page,
                   total_tmdb_pages, tmdb_page_data_raw,
                   movies_on_this_page_raw, movies_to_target_for_session>>

LoadInit ==
    /\ cfg \in RunConfigs
    /\ pc = "load"
    /\ \E docs \in StoredFiles :
          /\ storage = File(docs)
          /\ snapshot = docs
          /\ f_args = docs
    /\ all_movie_entries_master_list = <<>>
    /\ processed_movie_titles_lower_set = {}
    /\ new_movies_added_this_session = 0
    /\ to_write = <<>>
    /\ saves = 0
    /\ current_tmdb_page = 1
    /\ total_tmdb_pages = 1
    /\ tmdb_page_data_raw = <<>>
    /\ movies_on_this_page_raw = <<>>
    /\ movies_to_target_for_session = <<>>
    /\ IdlePass
    /\ IdleNormalizer
    /\ f_pc = "idle"
    /\ f_out = <<>>

NextLoad == Load \/ Next

SpecLoad == LoadInit /\ [][NextLoad]_vars

\* the normalized titles of the documents of a file
StoredTitles(docs) ==
    {NormalizedTitle(docs[i]["movie_title"]) : i \in 1..Len(docs)}

\* C21 as stated: no record is removed by a run: the normalized title of
\* every record the storage file held at startup is in every snapshot written
\* later in the run, and the number of records in storage does not decrease
\* from one write to the next.
C21_AsClaimed ==
    /\ [](saves > 0 /\ to_write = <<>> /\ ~storage.torn =>
            StoredTitles(f_args) \subseteq StoredTitles(storage.docs))
    /\ [][Len(snapshot') >= Len(snapshot)]_vars

(***************************************************************************)
(* The constrained plot depends on the roster (lines 325-414).             *)
(***************************************************************************)
\* the roster enricher returned a roster in this pass
RosterSucceeded == p_ret.characters_and_relations # <<>>

\* the pass is past the block of lines 323-414
AfterCharacters ==
    p_pc \in {"analytical_data", "tmdb_review_summary", "fetch_imdb_ids",
              "finalize", "returned"}

\* C22: within one pass the constrained-plot enricher is invoked only after
\* the roster enricher has succeeded in that pass; when the roster enricher
\* is inactive, skipped by the update policy or fails, the constrained-plot
\* enricher is not invoked, the pass goes on to its next enricher and the
\* plot field keeps the value it had when the pass began.
C22_PlotOnlyAfterRoster ==
    /\ "constrained_plot_with_relations" \in p_calls =>
          RosterSucceeded /\ "characters_and_relations" \in p_calls
    /\ AfterCharacters /\ ~RosterSucceeded =>
          /\ "constrained_plot_with_relations" \notin p_calls
          /\ p_ret.constrained_plot_with_relations = <<>>
          /\ Get(working, PlotKey) = Get(InitialWorkingDict(p_in, p_new), PlotKey)

\* the roster enricher was called and failed in a pass whose configuration
\* has the constrained plot active and targeted
C22_Witness ==
    /\ AfterCharacters
    /\ "constrained_plot_with_relations" \in cfg.active_enrichers
    /\ should_update_field_local(p_new, cfg.fields_to_update, PlotKey)
    /\ "characters_and_relations" \in p_calls
    /\ ~RosterSucceeded
    /\ "constrained_plot_with_relations" \notin p_calls

(***************************************************************************)
(* The normalizer against a joint tracking of undirected and directed      *)
(* pairs.                                                                  *)
(***************************************************************************)
\* the ordered key of an edge between two canonical names
OrderedKey(source_norm, target_norm) == <<Lower(source_norm), Lower(target_norm)>>

\* one iteration with two seen sets: a non-directed edge is accepted iff its
\* unordered pair is not in the undirected set, and marks the pair and both
\* orderings; a directed edge is accepted iff neither its ordered key nor its
\* unordered pair has been seen, and marks its ordered key only
JointStep(name_map, st, rel_model) ==
    LET source_norm == NameMapGet(name_map, Strip(rel_model.source))
        target_norm == NameMapGet(name_map, Strip(rel_model.target))
    IN  IF Strip(rel_model.source) = <<>> \/ Strip(rel_model.target) = <<>> THEN st
        ELSE IF source_norm = <<>> \/ target_norm = <<>> THEN st
        ELSE IF source_norm[1] = target_norm[1] THEN st
        ELSE
          LET pair == PairKey(source_norm[1], target_norm[1])
              key == OrderedKey(source_norm[1], target_norm[1])
              kept == Append(st.unique_relationships,
                             [rel_model EXCEPT !.source = source_norm[1],
                                               !.target = target_norm[1]])
          IN  IF ~rel_model.directed
                THEN IF pair \notin st.undirected
                       THEN [undirected |-> st.undirected \cup {pair},
                             directed |-> st.directed
                                \cup {key, OrderedKey(target_norm[1], source_norm[1])},
                             unique_relationships |-> kept]
                       ELSE st
                ELSE IF key \notin st.directed /\ pair \notin st.undirected
                       THEN [undirected |-> st.undirected,
                             directed |-> st.directed \cup {key},
                             unique_relationships |-> kept]
                       ELSE st

RECURSIVE JointLoop(_, _, _)
JointLoop(name_map, st, rels) ==
    IF rels = <<>> THEN st
    ELSE JointLoop(name_map, JointStep(name_map, st, Head(rels)), Tail(rels))

\* C23 as stated: for a roster with a non-empty name the function returns
\* what the joint tracking of an undirected-seen and a directed-seen set
\* returns, so that two directed edges A->B and B->A between known
\* characters are both kept.
C23_AsClaimed ==
    (d_pc = "done" /\ CanonicalNames(d_roster) # {}) =>
        d_out = JointLoop(BuildNameMap(<<>>, d_roster),
                          [undirected |-> {}, directed |-> {},
                           unique_relationships |-> <<>>],
                          d_raw).unique_relationships

\* C24: when the roster is empty or holds no non-empty name,
\* deduplicate_and_normalize_relationships returns the raw edge list
\* unchanged: the same edges in the same order, no name rewritten, nothing
\* dropped; the call returns (it raises nothing).
C24_NoRosterReturnsRaw ==
    /\ d_pc = "done" /\ CanonicalNames(d_roster) = {} => d_out = d_raw
    /\ d_pc \in {"call", "done"}

\* a roster whose only entry has a blank name, and raw edges among which a
\* self-relationship, an alias of the blank entry and a blank target, all
\* returned as they were
C24_Witness ==
    /\ d_pc = "done"
    /\ d_roster = <<charBlank>>
    /\ Len(d_raw) = 2
    /\ d_raw[1].source = <<"J">> /\ d_raw[1].target = <<"J">>
    /\ d_raw[2].target = <<" ">>
    /\ d_out = d_raw

(***************************************************************************)
(* The choice among the candidates of a title search:                      *)
(* search_tmdb_for_movie_id (data_providers/tmdb_api.py lines 72-91) and   *)
(* the search branch of get_imdb_id_from_omdb (omdb_api.py lines 34-49).   *)
(* A candidate is [id, title, date]: date is release_date for TMDB and     *)
(* Year for OMDB, id is the TMDB id or the imdbID (<<>> when missing).     *)
(***************************************************************************)
MaxCandidates == 2

Year1995 == <<"1", "9", "9", "5">>
Year1996 == <<"1", "9", "9", "6">>

Candidate(id, title, date) == [id |-> id, title |-> title, date |-> date]

Candidates ==
    { Candidate(<<id>>, title, date) :
        id \in {1},
        title \in {<<"A", "b">>, <<"A", "b", "c">>, <<"X">>},
        date \in {Year1995 \o <<"-">>, Year1996 \o <<"-">>} }
    \cup {Candidate(<<>>, <<"a", "b">>, Year1995 \o <<"-">>)}

\* the result lists of at most MaxCandidates candidates, the i-th candidate
\* with the identifier i unless it has none
CandidateLists ==
    { [i \in 1..Len(l) |-> [l[i] EXCEPT !.id = IF l[i].id = <<>> THEN <<>> ELSE <<i>>]]
      : l \in SeqsUpTo(Candidates, MaxCandidates) }

\* release_date[:4]
FirstFour(date) == SubSeq(date, 1, IF Len(date) < 4 THEN Len(date) ELSE 4)

\* lines 58-62: the year sent to the provider and compared with
year_to_query_tmdb(year) ==
    IF year # <<>> /\ IsDigit(Strip(year[1])) /\ Len(Strip(year[1])) = 4
      THEN <<Strip(year[1])>> ELSE <<>>

\* lines 75-84: the loop from result i on, best_match being <<>> for None
RECURSIVE BestMatchLoop(_, _, _, _, _)
BestMatchLoop(results, i, best_match, target_title_lower, year) ==
    IF i > Len(results) THEN best_match
    ELSE
      LET result == results[i]
          tmdb_title_result_lower == Lower(result.title)
          year_matches == year # <<>> /\ FirstFour(result.date) = year[1]
      IN  IF year_matches /\ tmdb_title_result_lower = target_title_lower
            THEN <<result>>
          ELSE IF best_match = <<>> /\ tmdb_title_result_lower = target_title_lower
            THEN BestMatchLoop(results, i + 1, <<result>>, target_title_lower, year)
          ELSE IF best_match = <<>> /\ year_matches
                    /\ Contains(tmdb_title_result_lower, target_title_lower)
            THEN BestMatchLoop(results, i + 1, <<result>>, target_title_lower, year)
          ELSE BestMatchLoop(results, i + 1, best_match, target_title_lower, year)

\* lines 72-91: the candidate whose id and year are returned, <<>> for none
search_tmdb_for_movie_id(results, movie_title, year) ==
    IF Strip(movie_title) = <<>> \/ results = <<>> THEN <<>>
    ELSE LET best_match == BestMatchLoop(results, 1, <<>>, Lower(movie_title),
                                         year_to_query_tmdb(year))
         IN  IF best_match = <<>> THEN <<results[1]>> ELSE best_match

\* omdb_api.py lines 36-49: the candidate whose imdbID is returned
OmdbSearchPick(search, movie_title, year) ==
    IF Strip(movie_title) = <<>> \/ search = <<>> THEN <<>>
    ELSE
      LET of_year == {i \in 1..Len(search) :
                        /\ year # <<>> /\ year[1] # <<>>
                        /\ Contains(search[i].date, year[1])
                        /\ search[i].id # <<>>}
      IN  IF of_year # {} THEN <<search[FirstIndex(of_year)]>>
          ELSE IF search[1].id # <<>> THEN <<search[1]>>
          ELSE <<>>

SearchInit ==
    /\ f_pc = "call"
    /\ f_args \in [results : CandidateLists,
                   movie_title : {<<"a", "b">>, <<"a", "B">>},
                   year : {<<>>, <<Year1995>>}]
    /\ f_out = <<>>
    /\ cfg = Config({}, {})
    /\ pc = "idle"
    /\ IdleRun(<<>>)
    /\ IdlePass
    /\ IdleNormalizer

SearchTmdbCall ==
    /\ f_pc = "call"
    /\ f_out' = search_tmdb_for_movie_id(f_args.results, f_args.movie_title,
                                         f_args.year)
    /\ f_pc' = "tmdb_done"
    /\ UNCHANGED <<f_args, d_pc, d_roster, d_raw, d_out, cfg, passvars, runvars>>

SearchOmdbCall ==
    /\ f_pc = "call"
    /\ f_out' = OmdbSearchPick(f_args.results, f_args.movie_title, f_args.year)
    /\ f_pc' = "omdb_done"
    /\ UNCHANGED <<f_args, d_pc, d_roster, d_raw, d_out, cfg, passvars, runvars>>

NextSearch == SearchTmdbCall \/ SearchOmdbCall

SpecSearch == SearchInit /\ [][NextSearch]_vars

\* the priority of a candidate for a searched title and year: 1 for the
\* title (case-insensitively) and the year, 2 for the title, 3 for the year
\* with the searched title contained in the candidate's, 4 otherwise
Priority(candidate, movie_title, year) ==
    LET same_title == Lower(candidate.title) = Lower(movie_title)
        same_year == year # <<>> /\ FirstFour(candidate.date) = year[1]
    IN  IF same_title /\ same_year THEN 1
        ELSE IF same_title THEN 2
        ELSE IF same_year /\ Contains(Lower(candidate.title), Lower(movie_title))
          THEN 3
        ELSE 4

\* C25 as stated: for every non-empty candidate list of a title search the
\* chosen candidate has the highest priority present in the list, whatever
\* the order of the candidates, and the first candidate is chosen when none
\* has a priority above the lowest.
C25_AsClaimed ==
    (f_pc \in {"tmdb_done", "omdb_done"} /\ f_args.results # <<>>) =>
        /\ f_out # <<>>
        /\ \A i \in 1..Len(f_args.results) :
              Priority(f_out[1], f_args.movie_title, f_args.year)
                <= Priority(f_args.results[i], f_args.movie_title, f_args.year)
        /\ (\A i \in 1..Len(f_args.results) :
              Priority(f_args.results[i], f_args.movie_title, f_args.year) = 4)
             => f_out[1] = f_args.results[1]

\* ---------------------------------------------------------------------
\* generate_analytical_data on recommendation lists of every shape
\* (enrichers/analytical_enricher.py, lines 40-127)
\* ---------------------------------------------------------------------

MaxRecs == 2

RecItem(form, title, year, explanation) ==
    [form |-> form, title |-> title, year |-> year, explanation |-> explanation]

\* the entries an answer can hold: the three accepted forms with all parts,
\* an object without a year, a 3-element list holding a None, a 2-element
\* list, a string that does not parse, and an object whose year is outside
\* 1800..2100
RecItems ==
    { RecItem(form, << <<"R", " ">> >>, << <<"1", "9", "9", "8">> >>, << <<"e">> >>) :
          form \in {"dict", "list3", "str3"} }
    \cup { RecItem("dict", << <<"N">> >>, <<>>, << <<"e">> >>),
           RecItem("list3", << <<"L">> >>, << <<"1", "9", "9", "8">> >>, <<>>),
           RecItem("list2", << <<"S">> >>, << <<"1", "9", "9", "8">> >>, <<>>),
           RecItem("str", <<>>, <<>>, <<>>),
           RecItem("dict", << <<"O">> >>, << <<"1", "7", "0", "0">> >>, << <<"e">> >>) }

RecLists == UNION { [1..n -> RecItems] : n \in 0..MaxRecs }

RawRecommendations ==
    { RawField("list", TRUE, l) : l \in RecLists }
    \cup { RawField("scalar", TRUE, <<"n", "o", "n", "e">>),
           RawField("null", TRUE, <<>>),
           RawField("absent", TRUE, <<>>) }

AnalyticalAnswers ==
    { [d EXCEPT !["recommendations"] = raw] :
          d \in { Llm3Data,
                  [Llm3Data EXCEPT !["matching_tags"] =
                      RawField("bare", FALSE, UnknownTags)] },
          raw \in RawRecommendations }

AnalyticalInit ==
    /\ f_pc = "call"
    /\ f_args \in { <<d>> : d \in AnalyticalAnswers }
    /\ f_out = <<>>
    /\ cfg = Config({}, {})
    /\ pc = "idle"
    /\ IdleRun(<<>>)
    /\ IdlePass
    /\ IdleNormalizer

\* the call: data["recommendations"] as handed to LLMCall3Output.model_validate
\* (line 113), and the value returned
AnalyticalCall ==
    /\ f_pc = "call"
    /\ f_out' = [recommendations |->
                    TransformedRecommendations(f_args[1]["recommendations"]),
                 ret |-> generate_analytical_data(f_args)]
    /\ f_pc' = "analytical_done"
    /\ UNCHANGED <<f_args, d_pc, d_roster, d_raw, d_out, cfg, passvars, runvars>>

NextAnalytical == AnalyticalCall

SpecAnalytical == AnalyticalInit /\ [][NextAnalytical]_vars

\* the four other fields of the answer pass validation
OtherFieldsValid(data) ==
    \A f \in AnalyticalKeys \ {"recommendations"} :
        Wrapped(data[f]).shape = "wrapped" /\ data[f].ok

\* an entry in one of the three accepted forms with its three parts
Reducible(item) ==
    /\ item.form \in {"dict", "list3", "str3"}
    /\ item.title # <<>> /\ item.year # <<>> /\ item.explanation # <<>>

\* C26: with an answer whose other fields are well-formed,
\* generate_analytical_data returns, for a raw list, one {title, year,
\* explanation} record per entry that has the three parts (as an object, a
\* 3-element list or a string parsing to one), in order, the other entries
\* being dropped; and when the raw value is present but not a list the
\* recommendations field is null.
C26_AsClaimed ==
    (f_pc = "analytical_done" /\ OtherFieldsValid(f_args[1])) =>
        LET raw == f_args[1]["recommendations"]
            kept == SelectSeq(raw.v, Reducible)
        IN  /\ raw.shape = "list" =>
                /\ f_out.ret # <<>>
                /\ Len(f_out.ret[1]["recommendations"]) = Len(kept)
                /\ \A i \in 1..Len(kept) :
                      /\ f_out.ret[1]["recommendations"][i].title
                             = Strip(kept[i].title[1])
                      /\ f_out.ret[1]["recommendations"][i].explanation
                             = Strip(kept[i].explanation[1])
            /\ raw.shape \in {"scalar", "null"} =>
                  f_out.recommendations.shape = "null"

CollectionTitles(entries) ==
    {NormalizedTitle(entries[i]["movie_title"]) : i \in 1..Len(entries)}

\* C29: in a discovery run processed_movie_titles_lower_set is at every
\* point the set of normalized titles of all_movie_entries_master_list, so
\* a processable candidate is existing exactly when a record with its
\* normalized title is in the collection and the lookup of line 595 never
\* comes back empty.
C29_KnownTitlesAreCollectionTitles ==
    cfg.operation_mode = "fetch_and_add_new" =>
        /\ processed_movie_titles_lower_set
              = CollectionTitles(all_movie_entries_master_list)
        /\ (pc = "page_candidates" /\ movies_on_this_page_raw # <<>>
              /\ Processable(tmdb_movie_raw_dict)) =>
              (is_existing_movie <=>
                  FirstWithTitle(all_movie_entries_master_list,
                                 current_movie_title_lower) # 0)

\* the pass over an existing record returned None, line 659 has added the
\* candidate's title, and the loop is at the next candidate
C29_Witness ==
    /\ cfg.operation_mode = "fetch_and_add_new"
    /\ pc = "page_candidates"
    /\ p_pc = "returned" /\ ~p_new /\ final = <<>>
    /\ movies_on_this_page_raw # <<>>
    /\ Processable(tmdb_movie_raw_dict)
    /\ is_existing_movie

IdentityKeys == {"movie_title", "movie_year", "tmdb_movie_id"}

SameIdentity(a, b) == \A k \in IdentityKeys : a[k] = b[k]

\* during and after a pass over an existing record the working dict and
\* the returned record carry the identity of the record passed in
IdentityKept ==
    (pc \in {"pass", "saving", "call"} /\ ~p_new /\ p_in # <<>>) =>
        /\ working # <<>> => SameIdentity(working, p_in)
        /\ final # <<>> => SameIdentity(final[1], p_in)

\* the commit of a pass over an existing record writes the returned record
\* at the position of the record passed in and nowhere else
ReplacedInPlace ==
    (pc = "pass" /\ pc' = "saving" /\ ~p_new) =>
        /\ Len(all_movie_entries_master_list')
              = Len(all_movie_entries_master_list)
        /\ \E i \in 1..Len(all_movie_entries_master_list) :
              /\ SameIdentity(all_movie_entries_master_list[i], p_in)
              /\ all_movie_entries_master_list'[i] = final[1]
              /\ \A j \in 1..Len(all_movie_entries_master_list) :
                    j # i => all_movie_entries_master_list'[j]
                                = all_movie_entries_master_list[j]

\* C30: a pass over an existing record leaves movie_title, movie_year and
\* tmdb_movie_id as they were, with any set of active enrichers, any update
\* policy and any answers of the enrichers, and its commit replaces the
\* record at the index it had, every other entry staying where it was.
C30_IdentityAndPositionKept == []IdentityKept /\ [][ReplacedInPlace]_vars

\* an update mode has committed a record that the pass changed, at the
\* first position of a collection of two
C30_Witness ==
    /\ cfg.operation_mode # "fetch_and_add_new"
    /\ pc = "saving" /\ ~p_new /\ final # <<>>
    /\ final[1] # p_in
    /\ Len(all_movie_entries_master_list) = 2
    /\ all_movie_entries_master_list[1] = final[1]
    /\ SameIdentity(final[1], p_in)

=============================================================================
